---- MODULE Spec2Model ----
(***************************************************************************)
(* Dependency graph builder and analyzers (src/graph/builder.js,          *)
(* src/analysis/circularDependencies.js, src/analysis/versionConflicts.js) *)
(* over a property graph store.  The store holds Project, Package and      *)
(* File nodes and DEPENDS_ON / HAS_FILE relationships.  Every node and     *)
(* relationship carries an identity (id) apart from its key, so that a     *)
(* second node with the same name or a second relationship between the     *)
(* same two nodes is a state the model can express.  Every awaited query   *)
(* is a step of its own: buildProjectGraph runs statement by statement,    *)
(* an analysis reads the store once per query, and the command line        *)
(* programs (src/index.js, src/analysis/analyze.js) are runs that open     *)
(* and close the store connection.                                         *)
(***************************************************************************)
EXTENDS Integers, Sequences, FiniteSets

VARIABLES graph, last, again, ret, writes, compat, call, cli, analysis, calls

vars == <<graph, last, again, ret, writes, compat, call, cli, analysis, calls>>

(***************************************************************************)
(* Bounds of the model                                                     *)
(***************************************************************************)
\* longest dependency list of one Manifest Record
MaxDeps == 2
\* dependency records ingested over a whole behaviour
MaxWrites == 3
\* dot-separated components of a version string given to isCompatible
MaxParts == 3
\* rows of one length up to which a claim is examined on every order of them
MaxTied == 3

(***************************************************************************)
(* Names and input values                                                  *)
(***************************************************************************)
ProjectNames == {"A", "B", "C"}
PackageNames == ProjectNames
\* the names above in the order of Cypher's string comparison (code points)
SortedNames == <<"A", "B", "C">>
NameRank(n) == CHOOSE i \in 1..Len(SortedNames) : SortedNames[i] = n
NameLess(a, b) == NameRank(a) < NameRank(b)

\* _parsePackageJson reads three sections, each with a type of its own
DepTypes == {"production", "development", "peer"}

\* version constraint strings are sequences of characters
Caret10 == <<"^", "1", ".", "0">>
Tilde20 == <<"~", "2", ".", "0">>
VersionRanges == {Caret10, Tilde20}

Null == "null"

(***************************************************************************)
(* Generic helpers                                                         *)
(***************************************************************************)
Range(s) == {s[i] : i \in 1..Len(s)}

\* the orders in which the store may hand the rows of S to a query that names no
\* order (no ORDER BY, or the elements inside a collect()): every order of them
RECURSIVE MatchOrders(_)
MatchOrders(S) ==
  IF S = {} THEN {<<>>}
  ELSE UNION {{<<x>> \o rest : rest \in MatchOrders(S \ {x})} : x \in S}

Min(a, b) == IF a < b THEN a ELSE b

\* a set of names as a sequence in ascending order (ORDER BY on a name column)
RECURSIVE SortNames(_)
SortNames(S) ==
  IF S = {} THEN <<>>
  ELSE LET x == CHOOSE y \in S : \A z \in S : ~NameLess(z, y)
       IN <<x>> \o SortNames(S \ {x})

\* a set of relationships as a sequence in ascending order of the target's name
RECURSIVE SortRelsByTarget(_)
SortRelsByTarget(S) ==
  IF S = {} THEN <<>>
  ELSE LET x == CHOOSE y \in S : \A z \in S : ~NameLess(z.to, y.to)
       IN <<x>> \o SortRelsByTarget(S \ {x})

\* String.prototype.includes
Includes(s, sub) == \E i \in 1..(Len(s) - Len(sub) + 1) : SubSeq(s, i, i + Len(sub) - 1) = sub

\* String.prototype.startsWith
HasPrefix(s, prefix) == Len(s) >= Len(prefix) /\ SubSeq(s, 1, Len(prefix)) = prefix

RECURSIVE SeqsUpTo(_, _)
SeqsUpTo(S, n) == IF n = 0 THEN {<<>>}
                  ELSE LET shorter == SeqsUpTo(S, n - 1)
                       IN shorter \cup {Append(s, x) : s \in {t \in shorter : Len(t) = n - 1}, x \in S}

(***************************************************************************)
(* Manifest Records (the parsers' output, input of buildProjectGraph).     *)
(* A package name is a string; a version string, a line and the content of *)
(* a file are sequences of characters; a path is a sequence of segments.   *)
(* A record holds the properties that a statement of the builder reads.    *)
(***************************************************************************)
Latest == <<"l", "a", "t", "e", "s", "t">>

\* the line terminators of JavaScript, which the '.' of a regular expression does not
\* match: LF, CR, and U+2028 and U+2029 (written LS and PS)
LineTerminators == {"\n", "\r", "LS", "PS"}

\* the semver patterns in the order _parseVersion tries them: /^\^(.+)$/, /^~(.+)$/,
\* /^>=(.+)$/, /^<=(.+)$/, /^>(.+)$/, /^<(.+)$/, /^=(.+)$/, /^(.+)$/
Patterns ==
  <<[prefix |-> <<"^">>, operator |-> "^"],
    [prefix |-> <<"~">>, operator |-> "~"],
    [prefix |-> <<">", "=">>, operator |-> ">="],
    [prefix |-> <<"<", "=">>, operator |-> "<="],
    [prefix |-> <<">">>, operator |-> ">"],
    [prefix |-> <<"<">>, operator |-> "<"],
    [prefix |-> <<"=">>, operator |-> "="],
    [prefix |-> <<>>, operator |-> ""]>>

\* versionStr.match(regex): the prefix, then at least one more character, and no line
\* terminator up to the end of the string
Matches(versionStr, pattern) ==
  /\ HasPrefix(versionStr, pattern.prefix)
  /\ Len(versionStr) > Len(pattern.prefix)
  /\ \A i \in (Len(pattern.prefix) + 1)..Len(versionStr) : versionStr[i] \notin LineTerminators

\* JavaScriptParser._parseVersion
_parseVersion(versionStr) ==
  IF versionStr = <<"*">> \/ versionStr = Latest
    THEN [version |-> Latest, operator |-> ""]
  ELSE IF \/ Includes(versionStr, <<"g", "i", "t">>)
          \/ Includes(versionStr, <<"g", "i", "t", "h", "u", "b">>)
    THEN [version |-> versionStr, operator |-> "git"]
  ELSE IF HasPrefix(versionStr, <<"f", "i", "l", "e", ":">>)
    THEN [version |-> versionStr, operator |-> "file"]
  ELSE IF \E k \in 1..Len(Patterns) : Matches(versionStr, Patterns[k])
    THEN LET k == CHOOSE i \in 1..Len(Patterns) :
                    /\ Matches(versionStr, Patterns[i])
                    /\ \A j \in 1..(i - 1) : ~Matches(versionStr, Patterns[j])
         IN [version |-> SubSeq(versionStr, Len(Patterns[k].prefix) + 1, Len(versionStr)),
             operator |-> Patterns[k].operator]
  ELSE [version |-> versionStr, operator |-> ""]

\* the record _extractDependencies makes of one entry of a section; it has no
\* lineNumber
DepRecord(name, versionStr, type) ==
  [name |-> name,
   version |-> _parseVersion(versionStr).version,
   versionRange |-> versionStr,
   operator |-> _parseVersion(versionStr).operator,
   type |-> type]

\* JavaScriptParser._extractDependencies: Object.entries(deps).map(...), one record
\* per entry of the section, in the order of its keys
_extractDependencies(deps, type) ==
  [i \in 1..Len(deps) |-> DepRecord(deps[i].name, deps[i].version, type)]

DependencyFile(projectName) == <<projectName, "package.json">>

\* a record of the shape JavaScriptParser.parse() returns for the project directory
\* of the given name, with the given dependency list
ParsedData(projectName, deps) ==
  [projectName |-> projectName,
   dependencyFile |-> DependencyFile(projectName),
   dependencies |-> deps,
   totalDependencies |-> Len(deps),
   stats |-> [t \in DepTypes |-> Cardinality({i \in 1..Len(deps) : deps[i].type = t})]]

\* new JavaScriptParser(projectPath).parse() on a directory whose package.json parses
\* to packageJson: the file read is resolve(projectPath, 'package.json'), a section
\* that is missing counts as {}, and a missing or empty name is replaced by
\* basename(projectPath); the three sections follow each other, each with its type
_parsePackageJson(projectPath, packageJson) ==
  LET filePath == Append(projectPath, "package.json")
      section(key) == IF key \in DOMAIN packageJson THEN packageJson[key] ELSE <<>>
      dependencies == _extractDependencies(section("dependencies"), "production")
      devDependencies == _extractDependencies(section("devDependencies"), "development")
      peerDependencies == _extractDependencies(section("peerDependencies"), "peer")
      allDependencies == dependencies \o devDependencies \o peerDependencies
  IN [projectName |-> IF "name" \in DOMAIN packageJson /\ packageJson.name # ""
                        THEN packageJson.name
                        ELSE projectPath[Len(projectPath)],
      dependencyFile |-> filePath,
      dependencies |-> allDependencies,
      totalDependencies |-> Len(allDependencies),
      stats |-> [production |-> Len(dependencies),
                 development |-> Len(devDependencies),
                 peer |-> Len(peerDependencies)]]

\* an entry of a section of package.json
Entry(name, versionStr) == [name |-> name, version |-> versionStr]

\* package.json files found in the project directory of the given name, with entries
\* on the workspace package A and on C in their sections: files named after the
\* directory, the same without a name, the same without an empty peerDependencies
\* section, and one that holds the name A and a dependency.  A section is an object: it
\* holds a key once, and Object.entries lists the keys in the order they were written.
PackageJsons(directory) ==
  LET sections(entries) ==
        {s \in SeqsUpTo(entries, MaxDeps) :
           \A i, j \in 1..Len(s) : s[i].name = s[j].name => i = j}
      named ==
        {packageJson \in [name : {directory},
                          dependencies : sections({Entry("A", Caret10), Entry("C", Caret10)}),
                          devDependencies : sections({Entry("A", Tilde20), Entry("C", Tilde20)}),
                          peerDependencies : sections({Entry("C", Caret10)})] :
           Len(packageJson.dependencies) + Len(packageJson.devDependencies)
             + Len(packageJson.peerDependencies) <= MaxDeps}
      without(packageJson, keys) == [k \in DOMAIN packageJson \ keys |-> packageJson[k]]
  IN named
       \cup {without(packageJson, {"name"}) : packageJson \in named}
       \cup {without(packageJson, {"name", "peerDependencies"}) :
               packageJson \in {x \in named : x.peerDependencies = <<>>}}
       \cup {[name |-> "A", dependencies |-> <<Entry("C", Caret10)>>]}

\* the characters of [a-zA-Z0-9_\-\.]
NameChars ==
  {"a", "b", "c", "d", "e", "f", "g", "h", "i", "j", "k", "l", "m", "n", "o", "p", "q",
   "r", "s", "t", "u", "v", "w", "x", "y", "z", "A", "B", "C", "D", "E", "F", "G", "H",
   "I", "J", "K", "L", "M", "N", "O", "P", "Q", "R", "S", "T", "U", "V", "W", "X", "Y",
   "Z", "0", "1", "2", "3", "4", "5", "6", "7", "8", "9", "_", "-", "."}

\* String.prototype.split on a separator of one character
RECURSIVE Split(_, _)
Split(s, separator) ==
  IF \A i \in 1..Len(s) : s[i] # separator THEN <<s>>
  ELSE LET k == CHOOSE i \in 1..Len(s) :
                  s[i] = separator /\ \A j \in 1..(i - 1) : s[j] # separator
       IN <<SubSeq(s, 1, k - 1)>> \o Split(SubSeq(s, k + 1, Len(s)), separator)

\* String.prototype.trim: without the white space and line terminators at both ends.
\* White space is TAB, VT, FF, SP, NBSP, ZWNBSP and every other space separator; a
\* character without an escape is named by its code point.
Trim(s) ==
  LET WhiteSpace == {"\t", "U+000B", "\f", " ", "U+00A0", "U+FEFF", "U+1680", "U+2000",
                     "U+2001", "U+2002", "U+2003", "U+2004", "U+2005", "U+2006", "U+2007",
                     "U+2008", "U+2009", "U+200A", "U+202F", "U+205F", "U+3000"}
      kept == {i \in 1..Len(s) : s[i] \notin WhiteSpace \cup LineTerminators}
  IN IF kept = {} THEN <<>>
     ELSE SubSeq(s, CHOOSE i \in kept : \A j \in kept : i <= j,
                    CHOOSE i \in kept : \A j \in kept : i >= j)

\* the characters of a name as a string
RECURSIVE Join(_)
Join(chars) == IF chars = <<>> THEN "" ELSE chars[1] \o Join(Tail(chars))

\* PythonParser._parseRequirementLine: line.match of
\* /^([a-zA-Z0-9_\-\.]+)(\[[\w,]+\])?(==|>=|<=|>|<|~=)?(.+)?$/.  Every group after the
\* name is optional and the last one takes whatever is left, so the name is the longest
\* run of name characters, the extras and the operator are taken when they are there,
\* and the line matches unless it starts with another character or holds a line
\* terminator.  The result is the empty sequence for null and the sequence of the
\* record for a record.
_parseRequirementLine(line, lineNumber) ==
  LET runEnd(chars, i) ==
        CHOOSE j \in (i - 1)..Len(line) :
          /\ \A k \in i..j : line[k] \in chars
          /\ (j = Len(line) \/ line[j + 1] \notin chars)
      nameEnd == runEnd(NameChars, 1)
      hasExtras ==
        /\ nameEnd + 1 <= Len(line) /\ line[nameEnd + 1] = "["
        /\ LET wordsEnd == runEnd((NameChars \ {"-", "."}) \cup {","}, nameEnd + 2)
           IN /\ wordsEnd >= nameEnd + 2
              /\ wordsEnd + 1 <= Len(line) /\ line[wordsEnd + 1] = "]"
      extrasEnd ==
        IF hasExtras
          THEN runEnd((NameChars \ {"-", "."}) \cup {","}, nameEnd + 2) + 1
          ELSE nameEnd
      rest == SubSeq(line, extrasEnd + 1, Len(line))
      operators ==
        <<[prefix |-> <<"=", "=">>, operator |-> "=="],
          [prefix |-> <<">", "=">>, operator |-> ">="],
          [prefix |-> <<"<", "=">>, operator |-> "<="],
          [prefix |-> <<">">>, operator |-> ">"],
          [prefix |-> <<"<">>, operator |-> "<"],
          [prefix |-> <<"~", "=">>, operator |-> "~="],
          [prefix |-> <<>>, operator |-> ""]>>
      found == CHOOSE k \in 1..Len(operators) :
                 /\ HasPrefix(rest, operators[k].prefix)
                 /\ \A j \in 1..(k - 1) : ~HasPrefix(rest, operators[j].prefix)
      version == Trim(SubSeq(rest, Len(operators[found].prefix) + 1, Len(rest)))
  IN IF nameEnd = 0 \/ \E i \in 1..Len(line) : line[i] \in LineTerminators THEN <<>>
     ELSE <<[name |-> Join(SubSeq(line, 1, nameEnd)),
             version |-> IF version = <<>> THEN Latest ELSE version,
             versionRange |-> operators[found].prefix \o version,
             operator |-> operators[found].operator,
             type |-> "production",
             lineNumber |-> lineNumber]>>

\* new PythonParser(projectPath).parse() on a directory whose requirements.txt holds
\* content: the lines are counted from 1, a line is cut at its first '#' and trimmed,
\* and an empty line or one that starts with '-' gives no record
_parseRequirementsTxt(projectPath, content) ==
  LET filePath == Append(projectPath, "requirements.txt")
      lines == Split(content, "\n")
      cleanLine(lineNumber) == Trim(Split(lines[lineNumber], "#")[1])
      RECURSIVE dependenciesUpTo(_)
      dependenciesUpTo(lineNumber) ==
        IF lineNumber = 0 THEN <<>>
        ELSE dependenciesUpTo(lineNumber - 1)
               \o (IF cleanLine(lineNumber) = <<>> \/ cleanLine(lineNumber)[1] = "-"
                     THEN <<>>
                     ELSE _parseRequirementLine(cleanLine(lineNumber), lineNumber))
      dependencies == dependenciesUpTo(Len(lines))
  IN [projectName |-> projectPath[Len(projectPath)],
      dependencyFile |-> filePath,
      dependencies |-> dependencies,
      totalDependencies |-> Len(dependencies)]

\* requirements.txt files of up to MaxDeps of the given lines
RequirementsTxts(requirements) ==
  LET RECURSIVE content(_)
      content(lines) ==
        IF Len(lines) = 1 THEN lines[1]
        ELSE lines[1] \o <<"\n">> \o content(Tail(lines))
  IN {<<>>} \cup {content(lines) : lines \in SeqsUpTo(requirements, MaxDeps) \ {<<>>}}

\* the dependency list of a manifest that names the packages of S: the projects of a
\* workspace all declare ^1.0 production dependencies
DependencyList(S) ==
  _extractDependencies([i \in 1..Cardinality(S) |-> Entry(SortNames(S)[i], Caret10)],
                       "production")

\* what parse() returns for the project directories A and B with a package.json, and
\* for the directory A with a requirements.txt that requires C without a version and
\* A with one; the file starts with a byte order mark and ends with a no-break space
ManifestRecords ==
  UNION {{_parsePackageJson(<<p>>, packageJson) : packageJson \in PackageJsons(p)} :
           p \in {"A", "B"}}
    \cup {_parseRequirementsTxt(<<"A">>, <<"U+FEFF", "C", " ", "#", "c", "\n",
                                          "A", " ", ">", "=", " ", "2", ".", "0", "U+00A0">>)}
\* manifests of three projects that depend on each other
WorkspaceRecords ==
  {ParsedData(p, DependencyList(S)) :
     p \in ProjectNames, S \in {T \in SUBSET PackageNames : Cardinality(T) <= MaxDeps}}

(***************************************************************************)
(* The store                                                               *)
(***************************************************************************)
EmptyGraph == [projects |-> {}, packages |-> {}, files |-> {},
               dependsOn |-> {}, hasFile |-> {}]

ProjectNodes(g, name) == {n \in g.projects : n.name = name}
PackageNodes(g, name) == {n \in g.packages : n.name = name}
FileNodes(g, path) == {n \in g.files : n.path = path}

\* DEPENDS_ON relationships from a node labelled fromLabel named from to the Package named to
DependsOnRels(g, fromLabel, from, to) ==
  {r \in g.dependsOn : r.fromLabel = fromLabel /\ r.from = from /\ r.to = to}

HasFileRels(g, from, to) == {r \in g.hasFile : r.from = from /\ r.to = to}

\* a project statement that first drops the relationships the project had
_createProjectNodeReplacing(g, parsedData) ==
  LET g0 == [g EXCEPT !.dependsOn =
               {r \in @ : ~(r.fromLabel = "Project" /\ r.from = parsedData.projectName)}]
  IN IF ProjectNodes(g, parsedData.projectName) = {}
       THEN [g0 EXCEPT !.projects = @ \cup
               {[name |-> parsedData.projectName, id |-> 1,
                 totalDependencies |-> parsedData.totalDependencies]}]
       ELSE g0

(***************************************************************************)
(* GraphBuilder                                                            *)
(***************************************************************************)
\* MERGE (p:Project {name}) SET p.totalDependencies = ...
_createProjectNode(g, parsedData) ==
  LET matched == ProjectNodes(g, parsedData.projectName)
      props(n) == [n EXCEPT !.totalDependencies = parsedData.totalDependencies]
  IN IF matched = {}
       THEN [g EXCEPT !.projects = @ \cup
               {[name |-> parsedData.projectName, id |-> 1,
                 totalDependencies |-> parsedData.totalDependencies]}]
       ELSE [g EXCEPT !.projects = (@ \ matched) \cup {props(n) : n \in matched}]

\* the package statement that matches on the name and the version
MergePackageByVersion(g, dep) ==
  IF \E n \in PackageNodes(g, dep.name) : n.version = dep.version THEN g
  ELSE [g EXCEPT !.packages = @ \cup
          {[name |-> dep.name, id |-> 1 + Cardinality(PackageNodes(g, dep.name)),
            version |-> dep.version, operator |-> dep.operator]}]

\* the package statement with ON CREATE SET in place of SET
MergePackageOnCreate(g, dep) ==
  IF PackageNodes(g, dep.name) # {} THEN g
  ELSE [g EXCEPT !.packages = @ \cup
          {[name |-> dep.name, id |-> 1,
            version |-> dep.version, operator |-> dep.operator]}]

\* MERGE (pkg:Package {name}) SET pkg.version = $version, pkg.operator = $operator,
\* with version: dep.version and operator: dep.operator || ''
MergePackage(g, dep) ==
  LET matched == PackageNodes(g, dep.name)
      operator == IF "operator" \in DOMAIN dep THEN dep.operator ELSE ""
      props(n) == [n EXCEPT !.version = dep.version, !.operator = operator]
  IN IF matched = {}
       THEN [g EXCEPT !.packages = @ \cup
               {[name |-> dep.name, id |-> 1,
                 version |-> dep.version, operator |-> operator]}]
       ELSE [g EXCEPT !.packages = (@ \ matched) \cup {props(n) : n \in matched}]

\* relParams of _createDependencyNodes: versionConstraint: dep.versionRange ||
\* dep.version, type: dep.type || 'production', lineNumber: dep.lineNumber || 0, where
\* a || b is b when a is missing, the empty string or 0
RelParams(projectName, dep) ==
  [projectName |-> projectName,
   packageName |-> dep.name,
   versionConstraint |-> IF "versionRange" \in DOMAIN dep /\ dep.versionRange # <<>>
                           THEN dep.versionRange ELSE dep.version,
   type |-> IF "type" \in DOMAIN dep /\ dep.type # "" THEN dep.type ELSE "production",
   lineNumber |-> IF "lineNumber" \in DOMAIN dep /\ dep.lineNumber # 0
                    THEN dep.lineNumber ELSE 0]

\* the relationship statement with ON CREATE SET in place of SET
MergeDependsOnOnCreate(g, projectName, dep) ==
  LET relParams == RelParams(projectName, dep)
  IN IF ProjectNodes(g, projectName) = {} \/ PackageNodes(g, dep.name) = {} THEN g
     ELSE IF DependsOnRels(g, "Project", projectName, dep.name) # {} THEN g
     ELSE [g EXCEPT !.dependsOn = @ \cup
             {[fromLabel |-> "Project", from |-> projectName, to |-> dep.name,
               id |-> 1,
               versionConstraint |-> relParams.versionConstraint,
               type |-> relParams.type,
               direct |-> TRUE, lineNumber |-> relParams.lineNumber, source |-> Null]}]

\* the relationship statement with CREATE in place of MERGE
CreateDependsOn(g, projectName, dep) ==
  LET relParams == RelParams(projectName, dep)
  IN IF ProjectNodes(g, projectName) = {} \/ PackageNodes(g, dep.name) = {} THEN g
     ELSE [g EXCEPT !.dependsOn = @ \cup
             {[fromLabel |-> "Project", from |-> projectName, to |-> dep.name,
               id |-> 1 + Cardinality(DependsOnRels(g, "Project", projectName, dep.name)),
               versionConstraint |-> relParams.versionConstraint,
               type |-> relParams.type,
               direct |-> TRUE, lineNumber |-> relParams.lineNumber, source |-> Null]}]

\* MATCH (proj) MATCH (pkg) MERGE (proj)-[r:DEPENDS_ON]->(pkg) SET r.versionConstraint
\* = $versionConstraint, r.type = $type, r.direct = true, r.lineNumber = $lineNumber
MergeDependsOn(g, projectName, dep) ==
  LET relParams == RelParams(projectName, dep)
      matched == DependsOnRels(g, "Project", relParams.projectName, relParams.packageName)
      props(r) == [r EXCEPT !.versionConstraint = relParams.versionConstraint,
                            !.type = relParams.type,
                            !.direct = TRUE,
                            !.lineNumber = relParams.lineNumber]
  IN IF \/ ProjectNodes(g, relParams.projectName) = {}
        \/ PackageNodes(g, relParams.packageName) = {} THEN g
     ELSE IF matched = {}
       THEN [g EXCEPT !.dependsOn = @ \cup
               {[fromLabel |-> "Project", from |-> relParams.projectName,
                 to |-> relParams.packageName,
                 id |-> 1,
                 versionConstraint |-> relParams.versionConstraint,
                 type |-> relParams.type,
                 direct |-> TRUE, lineNumber |-> relParams.lineNumber, source |-> Null]}]
       ELSE [g EXCEPT !.dependsOn = (@ \ matched) \cup {props(r) : r \in matched}]

\* the for-loop of _createDependencyNodes: package upsert, then edge upsert
RECURSIVE _createDependencyNodes(_, _, _)
_createDependencyNodes(g, projectName, dependencies) ==
  IF dependencies = <<>> THEN g
  ELSE LET dep == Head(dependencies)
           g1 == MergePackage(g, dep)
           g2 == MergeDependsOn(g1, projectName, dep)
       IN _createDependencyNodes(g2, projectName, Tail(dependencies))

\* MATCH (proj) MERGE (f:File {path}) SET ... MERGE (proj)-[:HAS_FILE]->(f)
_createFileNode(g, parsedData) ==
  LET path == parsedData.dependencyFile
      proj == parsedData.projectName
      g1 == IF FileNodes(g, path) = {}
              THEN [g EXCEPT !.files = @ \cup {[path |-> path, id |-> 1]}]
              ELSE g
  IN IF ProjectNodes(g, proj) = {} THEN g
     ELSE IF HasFileRels(g1, proj, path) = {}
       THEN [g1 EXCEPT !.hasFile = @ \cup {[from |-> proj, to |-> path, id |-> 1]}]
       ELSE g1

buildProjectGraph(g, parsedData) ==
  LET g1 == _createProjectNode(g, parsedData)
      g2 == _createDependencyNodes(g1, parsedData.projectName, parsedData.dependencies)
  IN _createFileNode(g2, parsedData)

(***************************************************************************)
(* Values the driver hands to the caller: a Cypher integer arrives as an   *)
(* Integer object with a low word (builder.js:297), a JavaScript number is *)
(* a primitive.                                                            *)
(***************************************************************************)
Integer(n) == [kind |-> "Integer", val |-> n]
Number(n) == [kind |-> "number", val |-> n]
JsNull == [kind |-> "null", val |-> 0]
JsTrue == [kind |-> "true", val |-> 1]
JsUndefined == [kind |-> "undefined", val |-> 0]

\* the link query with the new relationship drawn from depPkg to pkg
LinkRowsReversed(g) ==
  {[r EXCEPT !.from = r.to, !.to = r.from] :
     r \in {x \in g.dependsOn : /\ x.fromLabel = "Project"
                                /\ ProjectNodes(g, x.from) # {}
                                /\ PackageNodes(g, x.from) # {}
                                /\ PackageNodes(g, x.to) # {}}}

\* rows of MATCH (proj:Project) MATCH (pkg:Package {name: proj.name})
\*         MATCH (proj)-[r:DEPENDS_ON]->(depPkg:Package)
LinkRows(g) ==
  {r \in g.dependsOn : /\ r.fromLabel = "Project"
                       /\ ProjectNodes(g, r.from) # {}
                       /\ PackageNodes(g, r.from) # {}
                       /\ PackageNodes(g, r.to) # {}}

\* the link statement with ON CREATE SET r2.type = 'production' in place of r.type
MergeDerivedProduction(g, r) ==
  IF DependsOnRels(g, "Package", r.from, r.to) # {} THEN g
  ELSE [g EXCEPT !.dependsOn = @ \cup
          {[fromLabel |-> "Package", from |-> r.from, to |-> r.to,
            id |-> 1,
            versionConstraint |-> r.versionConstraint, type |-> "production",
            direct |-> FALSE, lineNumber |-> 0, source |-> "derived"]}]

\* the link statement with SET in place of ON CREATE SET
MergeDerivedSet(g, r) ==
  LET matched == DependsOnRels(g, "Package", r.from, r.to)
      props(x) == [x EXCEPT !.versionConstraint = r.versionConstraint,
                            !.type = r.type, !.source = "derived"]
  IN IF matched # {}
       THEN [g EXCEPT !.dependsOn = (@ \ matched) \cup {props(x) : x \in matched}]
       ELSE [g EXCEPT !.dependsOn = @ \cup
               {[fromLabel |-> "Package", from |-> r.from, to |-> r.to,
                 id |-> 1,
                 versionConstraint |-> r.versionConstraint, type |-> r.type,
                 direct |-> FALSE, lineNumber |-> 0, source |-> "derived"]}]

\* a link statement that creates no relationship against one that exists
MergeDerivedOneWay(g, r) ==
  IF DependsOnRels(g, "Package", r.from, r.to) # {} THEN g
  ELSE IF DependsOnRels(g, "Package", r.to, r.from) # {} THEN g
  ELSE [g EXCEPT !.dependsOn = @ \cup
          {[fromLabel |-> "Package", from |-> r.from, to |-> r.to,
            id |-> 1,
            versionConstraint |-> r.versionConstraint, type |-> r.type,
            direct |-> FALSE, lineNumber |-> 0, source |-> "derived"]}]

\* the link statement with CREATE in place of MERGE
CreateDerived(g, r) ==
  [g EXCEPT !.dependsOn = @ \cup
     {[fromLabel |-> "Package", from |-> r.from, to |-> r.to,
       id |-> 1 + Cardinality(DependsOnRels(g, "Package", r.from, r.to)),
       versionConstraint |-> r.versionConstraint, type |-> r.type,
       direct |-> FALSE, lineNumber |-> 0, source |-> "derived"]}]

\* MERGE (pkg)-[r2:DEPENDS_ON]->(depPkg) ON CREATE SET ... for one row
MergeDerived(g, r) ==
  IF DependsOnRels(g, "Package", r.from, r.to) # {} THEN g
  ELSE [g EXCEPT !.dependsOn = @ \cup
          {[fromLabel |-> "Package", from |-> r.from, to |-> r.to,
            id |-> 1,
            versionConstraint |-> r.versionConstraint, type |-> r.type,
            direct |-> FALSE, lineNumber |-> 0, source |-> "derived"]}]

RECURSIVE MergeDerivedAll(_, _)
MergeDerivedAll(g, rows) ==
  IF rows = <<>> THEN g
  ELSE MergeDerivedAll(MergeDerived(g, Head(rows)), Tail(rows))

\* the orders in which the MERGE of the link query may meet the rows: rows that merge
\* the relationship of one pair of packages come in any order; a MERGE reads and
\* writes the relationships of its own pair only, so the order between rows of
\* different pairs changes nothing and one is taken
RECURSIVE LinkRowOrders(_)
LinkRowOrders(rows) ==
  IF rows = {} THEN {<<>>}
  ELSE LET r == CHOOSE x \in rows : TRUE
           same == {x \in rows : x.from = r.from /\ x.to = r.to}
       IN {first \o rest : first \in MatchOrders(same), rest \in LinkRowOrders(rows \ same)}

\* the graphs the link query may leave
LinkedGraphs(g) == {MergeDerivedAll(g, rows) : rows \in LinkRowOrders(LinkRows(g))}

\* RETURN count(DISTINCT r2): the relationships bound to r2 over all rows, g1 being
\* the graph the query left
linksCreated(g, g1) ==
  Cardinality(UNION {DependsOnRels(g1, "Package", r.from, r.to) : r \in LinkRows(g)})

\* result[0]?.linksCreated?.low || result[0]?.linksCreated || 0
linkPackageDependenciesCount(g, g1) ==
  LET c == Integer(linksCreated(g, g1))
  IN IF c.val # 0 THEN Number(c.val) ELSE c

(***************************************************************************)
(* GraphBuilder queries                                                    *)
(***************************************************************************)
\* rows of MATCH (proj:Project)-[r:DEPENDS_ON]->(pkg:Package), one per relationship
DirectRows(g) ==
  {r \in g.dependsOn : /\ r.fromLabel = "Project"
                       /\ ProjectNodes(g, r.from) # {}
                       /\ PackageNodes(g, r.to) # {}}

PackageVersion(g, name) == (CHOOSE n \in PackageNodes(g, name) : TRUE).version

DependencyRow(g, r) ==
  [name |-> r.to, version |-> PackageVersion(g, r.to),
   constraint |-> r.versionConstraint, type |-> r.type, lineNumber |-> r.lineNumber]

\* the query with ORDER BY pkg.name DESC
getProjectDependenciesDescending(g, projectName) ==
  LET rels == SortRelsByTarget({r \in DirectRows(g) : r.from = projectName})
  IN [i \in 1..Len(rels) |-> DependencyRow(g, rels[Len(rels) + 1 - i])]

\* MATCH (proj:Project {name})-[r]->(pkg) RETURN ... ORDER BY pkg.name
getProjectDependencies(g, projectName) ==
  LET rels == SortRelsByTarget({r \in DirectRows(g) : r.from = projectName})
  IN [i \in 1..Len(rels) |-> DependencyRow(g, rels[i])]

\* the statistics query without the {name: $projectName} filter
getDependencyStatsAllProjects(g, projectName) ==
  LET rels == DirectRows(g)
      types == {r.type : r \in rels}
  IN [t \in types |-> Integer(Cardinality({r \in rels : r.type = t}))]

\* MATCH (proj:Project {name})-[r]->(pkg) RETURN r.type as type, count(pkg) as count;
\* results.forEach(row => stats[row.type] = row.count): one key per type with a row
getDependencyStats(g, projectName) ==
  LET rels == {r \in DirectRows(g) : r.from = projectName}
      types == {r.type : r \in rels}
  IN [t \in types |-> Integer(Cardinality({r \in rels : r.type = t}))]

(***************************************************************************)
(* VersionConflictAnalyzer                                                 *)
(***************************************************************************)
DependencyEntry(r) == [project |-> r.from, version |-> r.versionConstraint, type |-> r.type]

\* collect({project, version, type}) of one package: one entry per row, in the order
\* the store matched the rows in; the lists the store may give
CollectEntries(g, packageName) ==
  {[i \in 1..Len(rels) |-> DependencyEntry(rels[i])] :
     rels \in MatchOrders({r \in DirectRows(g) : r.to = packageName})}

\* collect(DISTINCT {project, version, type}) of one package: an entry once, in the
\* order the store matched the rows in
CollectDistinctEntries(g, packageName) ==
  MatchOrders({DependencyEntry(r) : r \in {x \in DirectRows(g) : x.to = packageName}})

\* [dep IN dependencies | dep.version] / dependencies.map(dep => dep.version), deduplicated
UniqueVersions(dependencies) == {dependencies[i].version : i \in 1..Len(dependencies)}

DependedPackages(g) == {r.to : r \in DirectRows(g)}

\* RETURN packageName, dependencies ORDER BY packageName: one row per name, each with
\* one of the lists the store may have collected for it
RECURSIVE RowsByName(_, _)
RowsByName(names, collected) ==
  IF names = <<>> THEN {<<>>}
  ELSE {<<[packageName |-> Head(names), dependencies |-> dependencies]>> \o rest :
          dependencies \in collected[Head(names)],
          rest \in RowsByName(Tail(names), collected)}

\* the primary query without the WHERE on the distinct versions
findVersionConflictsNoVersionFilter(g) ==
  LET kept == [n \in DependedPackages(g) |->
                 {d \in CollectDistinctEntries(g, n) : Len(d) > 1}]
  IN RowsByName(SortNames({n \in DOMAIN kept : kept[n] # {}}), kept)

\* the primary query: grouping and both filters in the store; the results it may give
findVersionConflicts(g) ==
  LET kept == [n \in DependedPackages(g) |->
                 {d \in CollectDistinctEntries(g, n) :
                    /\ Len(d) > 1
                    /\ Cardinality(UniqueVersions(d)) > 1}]
  IN RowsByName(SortNames({n \in DOMAIN kept : kept[n] # {}}), kept)

\* the fallback whose filter keeps a record with at least one version
findVersionConflictsBasicAnyVersion(g) ==
  LET kept == [n \in DependedPackages(g) |->
                 {d \in CollectEntries(g, n) :
                    /\ Len(d) > 1
                    /\ Cardinality(UniqueVersions(d)) >= 1}]
  IN RowsByName(SortNames({n \in DOMAIN kept : kept[n] # {}}), kept)

\* the fallback: size filter in the store, distinctness filter in the caller; the
\* results it may give
findVersionConflictsBasic(g) ==
  LET kept == [n \in DependedPackages(g) |->
                 {d \in CollectEntries(g, n) :
                    /\ Len(d) > 1
                    /\ Cardinality(UniqueVersions(d)) > 1}]
  IN RowsByName(SortNames({n \in DOMAIN kept : kept[n] # {}}), kept)

NoConflict == [kind |-> "null"]

\* findPackageConflict that tests the number of entries instead of the distinct versions
findPackageConflictByEntries(g, packageName) ==
  {IF Len(dependencies) = 0 THEN NoConflict
   ELSE IF Len(dependencies) = 1 THEN NoConflict
   ELSE [kind |-> "record", packageName |-> packageName, dependencies |-> dependencies] :
     dependencies \in CollectEntries(g, packageName)}

\* no row when nothing matches; null when one distinct version; else the record; the
\* values it may return
findPackageConflict(g, packageName) ==
  {IF Len(dependencies) = 0 THEN NoConflict
   ELSE IF Cardinality(UniqueVersions(dependencies)) = 1 THEN NoConflict
   ELSE [kind |-> "record", packageName |-> packageName, dependencies |-> dependencies] :
     dependencies \in CollectEntries(g, packageName)}

\* packages that the rows of MATCH (proj:Project)-[:DEPENDS_ON]->(pkg:Package) reach
\* more than once (usageCount > 1)
SharedPackages(g) ==
  {n \in DependedPackages(g) : Cardinality({r \in DirectRows(g) : r.to = n}) > 1}

\* the statistics query: count(DISTINCT pkg.name) yields one row; the second MATCH and
\* the WHERE keep the rows of shared packages; the last WITH groups them by
\* totalPackages, so no shared package means no row at all
ConflictStatisticsRows(g) ==
  IF SharedPackages(g) = {} THEN <<>>
  ELSE <<[totalPackages |-> Integer(Cardinality({n.name : n \in g.packages})),
          sharedPackages |-> Integer(Cardinality(SharedPackages(g)))]>>

\* VersionConflictAnalyzer.getStatistics: the values it may return
VersionConflictAnalyzer_getStatistics(g) ==
  LET result == ConflictStatisticsRows(g)
  IN IF Len(result) = 0
       THEN {[totalPackages |-> Number(0), sharedPackages |-> Number(0),
              conflictingPackages |-> Number(0)]}
       ELSE {[totalPackages |-> result[1].totalPackages,
              sharedPackages |-> result[1].sharedPackages,
              conflictingPackages |-> Number(Len(conflicts))] :
               conflicts \in findVersionConflicts(g)}

(***************************************************************************)
(* CircularDependencyAnalyzer                                              *)
(***************************************************************************)
\* DEPENDS_ON relationships that leave a Package node
PackageRels(g) ==
  {r \in g.dependsOn : /\ r.fromLabel = "Package"
                       /\ PackageNodes(g, r.from) # {}
                       /\ PackageNodes(g, r.to) # {}}

\* variable-length pattern -[:DEPENDS_ON*]->: every walk that uses no relationship twice
RECURSIVE ExtendTrails(_, _, _)
ExtendTrails(rels, frontier, acc) ==
  IF frontier = {} THEN acc
  ELSE LET next == {Append(x[1], x[2]) :
                      x \in {y \in frontier \X rels :
                               /\ y[2].from = y[1][Len(y[1])].to
                               /\ \A i \in 1..Len(y[1]) : y[1][i] # y[2]}}
       IN ExtendTrails(rels, next, acc \cup next)

Trails(g) == LET start == {<<r>> : r \in PackageRels(g)}
             IN ExtendTrails(PackageRels(g), start, start)

\* MATCH path = (p1:Package)-[:DEPENDS_ON*]->(p1) WHERE length(path) > 1
CyclePaths(g) == {t \in Trails(g) : t[1].from = t[Len(t)].to /\ Len(t) > 1}

\* [node in nodes(path) | node.name]
NodeNames(t) == <<t[1].from>> \o [i \in 1..Len(t) |-> t[i].to]

\* RETURN DISTINCT packageNames, cycleLength: the distinct rows of the cycle paths
CycleRows(paths) == {[packages |-> NodeNames(t), length |-> Len(t)] : t \in paths}

\* ORDER BY cycleLength DESC LIMIT n
LongestFirst(rows, S) ==
  /\ \A i, j \in 1..Len(rows) : i < j => rows[i] # rows[j] /\ rows[i].length >= rows[j].length
  /\ \A x \in S : (\A i \in 1..Len(rows) : rows[i] # x) =>
                     \A i \in 1..Len(rows) : rows[i].length >= x.length

\* ORDER BY cycleLength ASC LIMIT n: an answer holds no row twice, holds its rows by
\* non-decreasing length, and leaves out no row shorter than one it holds.  The query
\* orders by nothing else, so rows of one length stand in the order the store matched
\* them in, whichever that is, and which of them a LIMIT lets through is open too.
ShortestFirst(rows, S) ==
  /\ \A i, j \in 1..Len(rows) : i < j => rows[i] # rows[j] /\ rows[i].length <= rows[j].length
  /\ \A x \in S : (\A i \in 1..Len(rows) : rows[i] # x) =>
                     \A i \in 1..Len(rows) : rows[i].length <= x.length

\* LIMIT of findCircularDependencies
CycleLimit == 100

\* the query with ORDER BY cycleLength DESC
findCircularDependenciesDescending(g) ==
  LET S == CycleRows(CyclePaths(g))
  IN {rows \in [1..Min(Cardinality(S), CycleLimit) -> S] : LongestFirst(rows, S)}

\* RETURN DISTINCT packageNames, cycleLength ORDER BY cycleLength ASC LIMIT 100: the
\* results the store may return, 100 of the rows or all of them when they are fewer
findCircularDependencies(g) ==
  LET S == CycleRows(CyclePaths(g))
  IN {rows \in [1..Min(Cardinality(S), CycleLimit) -> S] : ShortestFirst(rows, S)}

\* LIMIT of findProjectCircularDependencies
ProjectCycleLimit == 50

\* MATCH (proj:Project {name})-[:DEPENDS_ON]->(p1:Package) MATCH path = (p1)-[*]->(p1)
\* ... RETURN DISTINCT packageNames, cycleLength ORDER BY cycleLength ASC LIMIT 50
findProjectCircularDependencies(g, projectName) ==
  LET starts == {r.to : r \in {x \in DirectRows(g) : x.from = projectName}}
      S == CycleRows({c \in CyclePaths(g) : c[1].from \in starts})
  IN {rows \in [1..Min(Cardinality(S), ProjectCycleLimit) -> S] : ShortestFirst(rows, S)}

\* rows of MATCH (p1)-[:DEPENDS_ON]->(p2)-[:DEPENDS_ON]->(p1), one per pair of relationships
DirectCycleMatches(g) ==
  {m \in PackageRels(g) \X PackageRels(g) :
     m[1].to = m[2].from /\ m[2].to = m[1].from /\ m[1] # m[2]}

\* the query that matches one relationship and not the one back
findDirectCircularDependenciesOneWay(g) ==
  {[i \in 1..Len(rows) |-> [package1 |-> rows[i].from, package2 |-> rows[i].to]] :
     rows \in MatchOrders({r \in PackageRels(g) : NameLess(r.from, r.to)})}

\* the query without WHERE p1.name < p2.name
findDirectCircularDependenciesUnfiltered(g) ==
  {[i \in 1..Len(rows) |-> [package1 |-> rows[i][1].from, package2 |-> rows[i][1].to]] :
     rows \in MatchOrders(DirectCycleMatches(g))}

\* ... WHERE p1.name < p2.name RETURN p1.name as package1, p2.name as package2: no
\* ORDER BY, so the rows in any order; the results the store may return
findDirectCircularDependencies(g) ==
  {[i \in 1..Len(rows) |-> [package1 |-> rows[i][1].from, package2 |-> rows[i][1].to]] :
     rows \in MatchOrders({m \in DirectCycleMatches(g) : NameLess(m[1].from, m[1].to)})}

RECURSIVE SumLengths(_)
SumLengths(paths) ==
  IF paths = {} THEN 0
  ELSE LET t == CHOOSE x \in paths : TRUE IN Len(t) + SumLengths(paths \ {t})

MinLength(paths) == CHOOSE n \in {Len(t) : t \in paths} : \A t \in paths : n <= Len(t)
MaxLength(paths) == CHOOSE n \in {Len(t) : t \in paths} : \A t \in paths : n >= Len(t)

\* the statistics query: an aggregation without grouping key yields exactly one row;
\* count() is an integer, min/max/avg over no rows are null.  The average is a float,
\* kept here in hundredths, rounded as toFixed(2) rounds it.
CycleStatisticsRows(g) ==
  LET paths == CyclePaths(g)
      n == Cardinality(paths)
  IN <<[totalCycles |-> Integer(n),
        shortestCycle |-> IF n = 0 THEN JsNull ELSE Integer(MinLength(paths)),
        longestCycle |-> IF n = 0 THEN JsNull ELSE Integer(MaxLength(paths)),
        avgCycleLength |-> IF n = 0 THEN JsNull
                           ELSE Number((200 * SumLengths(paths) + n) \div (2 * n))]>>

\* x === 0 of JavaScript: true of the primitive number 0 only
StrictEqualsZero(x) == x.kind = "number" /\ x.val = 0

\* parseFloat(avg?.toFixed(2) || 0), in hundredths
RoundedAverage(avg) == IF avg.kind = "null" THEN Number(0) ELSE avg

ZeroStatistics ==
  [totalCycles |-> Number(0), shortestCycle |-> Number(0),
   longestCycle |-> Number(0), avgCycleLength |-> Number(0)]

\* CircularDependencyAnalyzer.getStatistics on the rows the store returned
getStatisticsOf(result) ==
  IF Len(result) = 0 \/ StrictEqualsZero(result[1].totalCycles) THEN ZeroStatistics
  ELSE LET record == result[1]
       IN [totalCycles |-> record.totalCycles,
           shortestCycle |-> record.shortestCycle,
           longestCycle |-> record.longestCycle,
           avgCycleLength |-> RoundedAverage(record.avgCycleLength)]

getStatistics(g) == getStatisticsOf(CycleStatisticsRows(g))

(***************************************************************************)
(* isCompatible: version strings as character sequences                    *)
(***************************************************************************)
DigitChars == <<"0", "1", "2", "3", "4", "5", "6", "7", "8", "9">>
IsDigit(c) == \E i \in 1..Len(DigitChars) : DigitChars[i] = c
DigitValue(c) == (CHOOSE i \in 1..Len(DigitChars) : DigitChars[i] = c) - 1

\* no match of a regular expression: null
NoNumber == <<"null">>

\* last index of the run of digits that starts at index i
RunEnd(v, i) ==
  CHOOSE j \in i..Len(v) :
    /\ \A k \in i..j : IsDigit(v[k])
    /\ (j = Len(v) \/ ~IsDigit(v[j + 1]))

\* parseInt of a run of decimal digits.  The result is a Number, a double: the value of
\* the run when it is below 2^53, from there on the double nearest to it (53 significant
\* bits, a tie goes to the even mantissa), and Infinity from 2^1024 - 2^970 on.  A
\* Number is written here by the decimal digits of its exact value, so that two results
\* are equal exactly when the two Numbers are ===.
ParseInt(digits) ==
  LET strip(d) ==
        LET kept == {i \in 1..Len(d) : d[i] # 0}
        IN IF kept = {} THEN <<0>>
           ELSE SubSeq(d, CHOOSE i \in kept : \A j \in kept : i <= j, Len(d))
      TwoTo53 == <<9, 0, 0, 7, 1, 9, 9, 2, 5, 4, 7, 4, 0, 9, 9, 2>>
      less(a, b) ==
        \/ Len(a) < Len(b)
        \/ /\ Len(a) = Len(b)
           /\ \E i \in 1..Len(a) : a[i] < b[i] /\ \A j \in 1..(i - 1) : a[j] = b[j]
      odd(d) == d[Len(d)] % 2 = 1
      \* d div 2: the carry into a digit is the parity of the digit before it
      half(d) ==
        strip([i \in 1..Len(d) |->
                 (d[i] + (IF i > 1 /\ d[i - 1] % 2 = 1 THEN 10 ELSE 0)) \div 2])
      \* 2 * d: the carry into a digit is 1 when the digit after it is 5 or more
      twice(d) ==
        LET body == [i \in 1..Len(d) |->
                       ((2 * d[i]) % 10) + (IF i < Len(d) /\ d[i + 1] >= 5 THEN 1 ELSE 0)]
        IN IF d[1] >= 5 THEN <<1>> \o body ELSE body
      succ(d) ==
        LET kept == {i \in 1..Len(d) : d[i] # 9}
        IN IF kept = {} THEN <<1>> \o [i \in 1..Len(d) |-> 0]
           ELSE LET k == CHOOSE i \in kept : \A j \in kept : i >= j
                IN [i \in 1..Len(d) |-> IF i < k THEN d[i] ELSE IF i = k THEN d[i] + 1 ELSE 0]
      RECURSIVE shifted(_, _)
      shifted(d, e) ==
        IF e = 0 THEN d
        ELSE CHOOSE r \in {shifted(x[1], x[2]) : x \in {<<twice(d), e - 1>>}} : TRUE
      \* d is the value without its e lowest bits, guard the highest of those bits,
      \* sticky whether a lower one is set
      RECURSIVE rounded(_, _, _, _)
      rounded(d, e, guard, sticky) ==
        IF ~less(d, TwoTo53)
          THEN CHOOSE r \in {rounded(x[1], x[2], x[3], x[4]) :
                                x \in {<<half(d), e + 1, odd(d), sticky \/ guard>>}} : TRUE
        ELSE LET mantissa == IF guard /\ (sticky \/ odd(d)) THEN succ(d) ELSE d
             IN IF e + (IF mantissa = TwoTo53 THEN 53 ELSE 52) >= 1024
                  THEN <<"I", "n", "f", "i", "n", "i", "t", "y">>
                ELSE LET value == shifted(mantissa, e)
                     IN [i \in 1..Len(value) |-> DigitChars[value[i] + 1]]
  IN IF digits = <<>> THEN <<"N", "a", "N">>
     ELSE rounded(strip([i \in 1..Len(digits) |-> DigitValue(digits[i])]), 0, FALSE, FALSE)

\* v.match(/\d+/): the first run of digits, parsed
getMajor(v) ==
  LET starts == {i \in 1..Len(v) : IsDigit(v[i])}
  IN IF starts = {} THEN NoNumber
     ELSE LET i == CHOOSE x \in starts : \A y \in starts : x <= y
          IN ParseInt(SubSeq(v, i, RunEnd(v, i)))

\* v.match(/\d+\.(\d+)/): the digits after the first "digits." that digits follow
getMinor(v) ==
  LET starts == {i \in 1..Len(v) :
                   /\ IsDigit(v[i])
                   /\ RunEnd(v, i) + 2 <= Len(v)
                   /\ v[RunEnd(v, i) + 1] = "."
                   /\ IsDigit(v[RunEnd(v, i) + 2])}
  IN IF starts = {} THEN NoNumber
     ELSE LET i == CHOOSE x \in starts : \A y \in starts : x <= y
              m == RunEnd(v, i) + 2
          IN ParseInt(SubSeq(v, m, RunEnd(v, m)))

StartsWith(v, c) == Len(v) > 0 /\ v[1] = c

\* isCompatible whose tilde branch compares the major numbers only
isCompatibleTildeMajorOnly(version1, version2) ==
  IF version1 = version2 THEN TRUE
  ELSE IF StartsWith(version1, "^") /\ StartsWith(version2, "^")
    THEN getMajor(version1) = getMajor(version2)
  ELSE IF StartsWith(version1, "~") /\ StartsWith(version2, "~")
    THEN getMajor(version1) = getMajor(version2)
  ELSE FALSE

isCompatible(version1, version2) ==
  IF version1 = version2 THEN TRUE
  ELSE IF StartsWith(version1, "^") /\ StartsWith(version2, "^")
    THEN getMajor(version1) = getMajor(version2)
  ELSE IF StartsWith(version1, "~") /\ StartsWith(version2, "~")
    THEN /\ getMajor(version1) = getMajor(version2)
         /\ getMinor(version1) = getMinor(version2)
  ELSE FALSE

\* version strings: an operator prefix, then up to MaxParts dot-separated components
Operators == {<<>>, <<"^">>, <<"~">>, <<">", "=">>}
Components == {<<"1">>, <<"1", "0">>, <<"x">>}

RECURSIVE Dotted(_)
Dotted(n) == IF n = 1 THEN Components
             ELSE {d \o <<".">> \o c : d \in Dotted(n - 1), c \in Components}

\* the version strings compared, and caret and tilde ranges on 2^53 and on 2^53 + 1,
\* the first digit run that parseInt rounds, as a major and as a minor number
VersionStrings ==
  {op \o num : op \in Operators, num \in UNION {Dotted(n) : n \in 1..MaxParts}}
  \cup {op \o prefix \o num :
          op \in {<<"^">>, <<"~">>},
          prefix \in {<<>>, <<"1", ".">>},
          num \in {<<"9", "0", "0", "7", "1", "9", "9", "2", "5", "4", "7", "4", "0", "9", "9", "2">>,
                   <<"9", "0", "0", "7", "1", "9", "9", "2", "5", "4", "7", "4", "0", "9", "9", "3">>}}

(***************************************************************************)
(* Operations on the store                                                 *)
(***************************************************************************)
NoRecord == ParsedData(Null, <<>>)
NoCheck == [version1 |-> <<>>, version2 |-> <<>>, result |-> "pending"]
\* no buildProjectGraph call is in progress; rec, pc and packagesCreated are the
\* locals of the running (or failed) call, start is the store as that call found it
NoCall == [status |-> "idle", rec |-> NoRecord, pc |-> 0, failedAt |-> 0,
           start |-> EmptyGraph, packagesCreated |-> 0]
\* no two buildProjectGraph calls run side by side
NoCalls == [p \in 1..2 |-> NoCall]
\* the arguments of a command line run: an option of analyze.js with its value, or
\* the --clear flag of index.js with the manifest found at the project path
Args(option, value, clear, manifest) ==
  [option |-> option, value |-> value, clear |-> clear, manifest |-> manifest]
\* no analysis operation has been called
NoAnalysis == [op |-> Null, name |-> Null, status |-> "none", query |-> Null,
               outcomes |-> <<>>, queries |-> 0, kept |-> <<>>, result |-> JsUndefined,
               report |-> <<>>]
\* no command line run has started
NoRun == [program |-> "none", pc |-> "idle", args |-> Args(Null, Null, FALSE, NoRecord),
          n |-> 0, op |-> Null, query |-> Null, kept |-> <<>>,
          connection |-> "none", failed |-> FALSE, exitCode |-> Null]

Init ==
  /\ graph = EmptyGraph
  /\ last = [op |-> "none", rec |-> NoRecord]
  /\ again = FALSE
  /\ ret = JsUndefined
  /\ writes = 0
  /\ compat = NoCheck
  /\ call = NoCall
  /\ cli = NoRun
  /\ analysis = NoAnalysis
  /\ calls = NoCalls

(***************************************************************************)
(* buildProjectGraph statement by statement: every executeQuery call is a  *)
(* transaction of its own and may fail; a failure is thrown through        *)
(* _createDependencyNodes and buildProjectGraph to the caller.  Spec and   *)
(* SpecWorkspace are the runs in which every statement succeeds, SpecSteps *)
(* the runs in which any statement may fail.                               *)
(***************************************************************************)
\* the records of the statement-level runs: requirements.txt files of project A, with
\* requirements of C without a version and with one, a requirement of A and a comment
\* line, ingested again and again
StepRecords ==
  {_parseRequirementsTxt(<<"A">>, content) :
     content \in RequirementsTxts({<<"C">>, <<"C", "=", "=", "1", ".", "0">>,
                                   <<"A", ">", "=", "2", ".", "0">>, <<"#", " ", "c">>})}

\* executeQuery calls of one buildProjectGraph call: the project, a package and a
\* relationship per record, the file
NumStatements(parsedData) == 2 * Len(parsedData.dependencies) + 2

\* the dependency record that statement i belongs to
RecordOf(i) == i \div 2

\* the loop that takes the records from the last to the first
ApplyStatementReversed(g, parsedData, i) ==
  LET dep == parsedData.dependencies[Len(parsedData.dependencies) + 1 - RecordOf(i)]
  IN IF i = 1 THEN _createProjectNode(g, parsedData)
     ELSE IF i = NumStatements(parsedData) THEN _createFileNode(g, parsedData)
     ELSE IF i % 2 = 0 THEN MergePackage(g, dep)
     ELSE MergeDependsOn(g, parsedData.projectName, dep)

\* the loop body with the relationship statement ahead of the package statement
ApplyStatementEdgeFirst(g, parsedData, i) ==
  IF i = 1 THEN _createProjectNode(g, parsedData)
  ELSE IF i = NumStatements(parsedData) THEN _createFileNode(g, parsedData)
  ELSE IF i % 2 = 0
    THEN MergeDependsOn(g, parsedData.projectName, parsedData.dependencies[RecordOf(i)])
  ELSE MergePackage(g, parsedData.dependencies[RecordOf(i)])

\* the i-th executeQuery call of buildProjectGraph(parsedData)
ApplyStatement(g, parsedData, i) ==
  IF i = 1 THEN _createProjectNode(g, parsedData)
  ELSE IF i = NumStatements(parsedData) THEN _createFileNode(g, parsedData)
  ELSE IF i % 2 = 0 THEN MergePackage(g, parsedData.dependencies[RecordOf(i)])
  ELSE MergeDependsOn(g, parsedData.projectName, parsedData.dependencies[RecordOf(i)])

\* the error buildProjectGraph rethrows
JsThrown == [kind |-> "thrown", val |-> 0]

\* dependency records are ingested MaxWrites times at most
WithinBound(parsedData) == writes + Len(parsedData.dependencies) <= MaxWrites

\* a caller calls buildProjectGraph(parsedData)
StartBuild(parsedData) ==
  /\ call.status # "running"
  /\ call' = [status |-> "running", rec |-> parsedData, pc |-> 1, failedAt |-> 0,
              start |-> graph, packagesCreated |-> 0]
  /\ writes' = writes + Len(parsedData.dependencies)
  /\ ret' = JsUndefined
  /\ UNCHANGED <<graph, last, again, compat, cli, analysis, calls>>

\* one executeQuery call succeeds; after the last one buildProjectGraph returns true
ExecuteStatement ==
  /\ call.status = "running"
  /\ graph' = ApplyStatement(graph, call.rec, call.pc)
  /\ IF call.pc = NumStatements(call.rec)
       THEN /\ call' = [NoCall EXCEPT !.status = "returned"]
            /\ ret' = JsTrue
            /\ last' = [op |-> "build", rec |-> call.rec]
            /\ again' = (last = [op |-> "build", rec |-> call.rec])
       ELSE /\ call' = [call EXCEPT !.pc = @ + 1,
                                    !.packagesCreated =
                                      IF call.pc > 1 /\ call.pc % 2 = 1 THEN @ + 1 ELSE @]
            /\ UNCHANGED <<ret, last, again>>
  /\ UNCHANGED <<writes, compat, cli, analysis, calls>>

\* a loop that catches the error of a record and goes on with the next statement
FailStatementAndContinue ==
  /\ call.status = "running"
  /\ call.pc < NumStatements(call.rec)
  /\ call' = [call EXCEPT !.failedAt = call.pc, !.pc = @ + 1]
  /\ ret' = JsUndefined
  /\ UNCHANGED <<graph, last, again, writes, compat, cli, analysis, calls>>

\* one executeQuery call throws: nothing is written and the call ends with the error
FailStatement ==
  /\ call.status = "running"
  /\ call' = [call EXCEPT !.status = "thrown", !.failedAt = call.pc]
  /\ ret' = JsThrown
  /\ UNCHANGED <<graph, last, again, writes, compat, cli, analysis, calls>>

\* linkPackageDependencies: one statement
LinkPackageDependencies ==
  /\ \E g1 \in LinkedGraphs(graph) :
       /\ graph' = g1
       /\ ret' = linkPackageDependenciesCount(graph, g1)
  /\ last' = [op |-> "link", rec |-> NoRecord]
  /\ again' = (last.op = "link")
  /\ UNCHANGED <<writes, compat, call, cli, analysis, calls>>

\* one caller, which awaits each call before it makes the next one
Next ==
  \/ \E parsedData \in ManifestRecords : WithinBound(parsedData) /\ StartBuild(parsedData)
  \/ ExecuteStatement
  \/ call.status # "running" /\ LinkPackageDependencies

Spec == Init /\ [][Next]_vars

NextWorkspace ==
  \/ \E parsedData \in WorkspaceRecords : WithinBound(parsedData) /\ StartBuild(parsedData)
  \/ ExecuteStatement
  \/ call.status # "running" /\ LinkPackageDependencies

SpecWorkspace == Init /\ [][NextWorkspace]_vars

(***************************************************************************)
(* The ingest command on a workspace: analyzeProject (src/index.js) awaits *)
(* buildProjectGraph and then calls linkPackageDependencies; every project *)
(* of the workspace is analyzed once.                                      *)
(***************************************************************************)
\* manifests of the workspace projects: any of them may depend on any other one, and
\* project A may also name itself
IngestRecords ==
  {ParsedData(x[1], DependencyList(x[2])) :
     x \in {y \in ProjectNames \X SUBSET PackageNames : y[1] \notin y[2] \/ y[1] = "A"}}

NextIngest ==
  \/ \E parsedData \in IngestRecords :
       /\ last.op # "build"
       /\ ProjectNodes(graph, parsedData.projectName) = {}
       /\ StartBuild(parsedData)
  \/ ExecuteStatement
  \/ last.op = "build" /\ LinkPackageDependencies

SpecIngest == Init /\ [][NextIngest]_vars

NextSteps ==
  \/ \E parsedData \in StepRecords : WithinBound(parsedData) /\ StartBuild(parsedData)
  \/ ExecuteStatement
  \/ FailStatement

SpecSteps == Init /\ [][NextSteps]_vars

(***************************************************************************)
(* Two buildProjectGraph calls of two processes against one store: every   *)
(* executeQuery call is a transaction of its own, and the statements of    *)
(* the two calls reach the store in any order.                             *)
(***************************************************************************)
\* the manifests of the two processes: project A and project B, both may depend on
\* package C, under different constraints, and on the workspace package A
SharedRecords(p) ==
  LET records == {DepRecord("C", Caret10, "production"), DepRecord("C", Tilde20, "production"),
                  DepRecord("A", Caret10, "production")}
  IN {ParsedData(IF p = 1 THEN "A" ELSE "B", d) : d \in SeqsUpTo(records, MaxDeps)}

StartBuilds(parsedData1, parsedData2) ==
  /\ calls = NoCalls
  /\ graph = EmptyGraph
  /\ calls' = [p \in 1..2 |->
                 [status |-> "running", rec |-> IF p = 1 THEN parsedData1 ELSE parsedData2,
                  pc |-> 1, failedAt |-> 0, start |-> graph, packagesCreated |-> 0]]
  /\ UNCHANGED <<graph, last, again, ret, writes, compat, call, cli, analysis>>

\* the store commits the next statement of process p
ExecuteStatementOf(p) ==
  /\ calls[p].status = "running"
  /\ graph' = ApplyStatement(graph, calls[p].rec, calls[p].pc)
  /\ calls' = [calls EXCEPT ![p] =
                 IF calls[p].pc = NumStatements(calls[p].rec)
                   THEN [@ EXCEPT !.status = "returned"]
                   ELSE [@ EXCEPT !.pc = @ + 1,
                                  !.packagesCreated =
                                    IF calls[p].pc > 1 /\ calls[p].pc % 2 = 1 THEN @ + 1 ELSE @]]
  /\ UNCHANGED <<last, again, ret, writes, compat, call, cli, analysis>>

NextInterleaved ==
  \/ \E parsedData1 \in SharedRecords(1), parsedData2 \in SharedRecords(2) :
       StartBuilds(parsedData1, parsedData2)
  \/ \E p \in 1..2 : ExecuteStatementOf(p)

SpecInterleaved == Init /\ [][NextInterleaved]_vars

(***************************************************************************)
(* The analysis operations as calls: every query an operation sends is     *)
(* answered from the store as it is then, or fails with an error that      *)
(* carries a message; an async operation resolves with a value or rejects  *)
(* with the error it throws.  Build calls of another process write to the  *)
(* store meanwhile.                                                        *)
(***************************************************************************)
\* the manifests behind the analyses: every project depends on package C under a
\* constraint of its own
ConflictRecords ==
  {ParsedData(p, <<DepRecord("C", v, "production")>>) :
     p \in ProjectNames, v \in {Caret10, <<"^", "1", ".", "2">>, Tilde20}}

\* outcomes of one executeQuery call
QueryOk == [failed |-> FALSE, message |-> <<>>]
QueryFailure(message) == [failed |-> TRUE, message |-> message]
\* the store does not know apoc.coll.toSet
NoApocMessage == <<"n", "o", " ", "a", "p", "o", "c">>
\* any other failure of the store
QueryOutcomes ==
  {QueryOk, QueryFailure(NoApocMessage), QueryFailure(<<"t", "i", "m", "e", "o", "u", "t">>)}

Resolved(value) == [kind |-> "resolved", value |-> value]
Rejected(message) == [kind |-> "rejected", message |-> message]
\* the call goes on with another query
Continue(query) == [kind |-> "continue", query |-> query]

\* try { query; return rows } catch (error) { throw error }
Rethrowing(outcome, value) ==
  IF outcome.failed THEN Rejected(outcome.message) ELSE Resolved(value)

\* try { query; return statistics } catch (error) { return null }
Swallowing(outcome, value) ==
  IF outcome.failed THEN Resolved(JsNull) ELSE Resolved(value)

\* findVersionConflicts whose catch block runs the fallback after any failure
findVersionConflictsAnswerAlwaysFallback(query, outcome, rows) ==
  IF query = "findVersionConflictsBasic" THEN Rethrowing(outcome, rows)
  ELSE IF ~outcome.failed THEN Resolved(rows)
  ELSE Continue("findVersionConflictsBasic")

\* findVersionConflicts on the answer to a query: its primary query, and the query of
\* findVersionConflictsBasic when the message of the primary's error includes 'apoc'
findVersionConflictsAnswer(query, outcome, rows) ==
  IF query = "findVersionConflictsBasic" THEN Rethrowing(outcome, rows)
  ELSE IF ~outcome.failed THEN Resolved(rows)
  ELSE IF Includes(outcome.message, <<"a", "p", "o", "c">>)
    THEN Continue("findVersionConflictsBasic")
  ELSE Rejected(outcome.message)

\* VersionConflictAnalyzer.getStatistics on the answer to a query: the statistics
\* query, whose rows it keeps, then the queries of findVersionConflicts; the catch
\* block turns every error into null
conflictStatisticsAnswer(query, outcome, rows, kept) ==
  IF query = "VersionConflictAnalyzer.getStatistics"
    THEN IF outcome.failed THEN Resolved(JsNull)
         ELSE IF Len(rows) = 0
           THEN Resolved([totalPackages |-> Number(0), sharedPackages |-> Number(0),
                          conflictingPackages |-> Number(0)])
         ELSE Continue("findVersionConflicts")
    ELSE LET conflicts == findVersionConflictsAnswer(query, outcome, rows)
         IN IF conflicts.kind = "continue" THEN conflicts
            ELSE IF conflicts.kind = "rejected" THEN Resolved(JsNull)
            ELSE Resolved([totalPackages |-> kept[1].totalPackages,
                           sharedPackages |-> kept[1].sharedPackages,
                           conflictingPackages |-> Number(Len(conflicts.value))])

\* the verdict that holds as soon as one pair of versions is compatible
allCompatibleSome(versions) ==
  \E i \in 1..Len(versions) : \E j \in (i + 1)..Len(versions) :
    isCompatible(versions[i], versions[j])

\* versions.every((v1, i) => versions.slice(i + 1).every(v2 => isCompatible(v1, v2)))
allCompatible(versions) ==
  \A i \in 1..Len(versions) : \A j \in (i + 1)..Len(versions) :
    isCompatible(versions[i], versions[j])

\* the verdict line printReport prints under each conflict
VersionConflictAnalyzer_printReport(conflicts) ==
  [k \in 1..Len(conflicts) |->
     LET versions == [i \in 1..Len(conflicts[k].dependencies) |->
                        conflicts[k].dependencies[i].version]
     IN IF allCompatible(versions) THEN "may be compatible"
        ELSE "potential incompatibility"]

CycleOperations == {"findCircularDependencies", "findDirectCircularDependencies",
                    "CircularDependencyAnalyzer.getStatistics"}
ScopedOperations == {"findProjectCircularDependencies", "findPackageConflict"}
AnalysisOperations ==
  CycleOperations \cup ScopedOperations
  \cup {"findVersionConflicts", "findVersionConflictsBasic",
        "VersionConflictAnalyzer.getStatistics"}

\* what the store may answer to a query of an operation when the query succeeds
QueryResults(g, query, name) ==
  CASE query = "findCircularDependencies" -> findCircularDependencies(g)
    [] query = "findDirectCircularDependencies" -> findDirectCircularDependencies(g)
    [] query = "findProjectCircularDependencies" -> findProjectCircularDependencies(g, name)
    [] query = "CircularDependencyAnalyzer.getStatistics" -> {CycleStatisticsRows(g)}
    [] query = "findVersionConflicts" -> findVersionConflicts(g)
    [] query = "findVersionConflictsBasic" -> findVersionConflictsBasic(g)
    [] query = "findPackageConflict" -> findPackageConflict(g, name)
    [] query = "VersionConflictAnalyzer.getStatistics" -> {ConflictStatisticsRows(g)}

\* an operation on the answer to the query it sent
AnalysisAnswer(op, query, outcome, rows, kept) ==
  CASE op = "findVersionConflicts" -> findVersionConflictsAnswer(query, outcome, rows)
    [] op = "VersionConflictAnalyzer.getStatistics" ->
         conflictStatisticsAnswer(query, outcome, rows, kept)
    [] op = "CircularDependencyAnalyzer.getStatistics" ->
         Swallowing(outcome, getStatisticsOf(rows))
    [] OTHER -> Rethrowing(outcome, rows)

\* the store answers the query an operation awaits: the operation returns, throws, or
\* sends its next query
Answered(a, outcome, rows) ==
  LET answer == AnalysisAnswer(a.op, a.query, outcome, rows, a.kept)
  IN IF answer.kind = "continue"
       THEN [a EXCEPT !.outcomes = Append(@, outcome),
                      !.queries = @ + 1,
                      !.query = answer.query,
                      !.kept = IF a.query = "VersionConflictAnalyzer.getStatistics"
                                 THEN rows ELSE @]
       ELSE [a EXCEPT !.outcomes = Append(@, outcome),
                      !.queries = @ + 1,
                      !.status = "returned",
                      !.kept = <<>>,
                      !.result = answer]

\* a caller calls an analysis operation, which sends its first query
RunAnalysis(op, name) ==
  /\ analysis.status # "running"
  /\ name = Null <=> op \notin ScopedOperations
  /\ analysis' = [NoAnalysis EXCEPT !.op = op, !.name = name, !.query = op,
                                    !.status = "running"]
  /\ UNCHANGED <<graph, last, again, ret, writes, compat, call, cli, calls>>

\* the store answers the query of the running operation from what it holds now
AnswerQuery(outcome) ==
  /\ analysis.status = "running"
  /\ \E rows \in QueryResults(graph, analysis.query, analysis.name) :
       analysis' = Answered(analysis, outcome, rows)
  /\ UNCHANGED <<graph, last, again, ret, writes, compat, call, cli, calls>>

\* analyze.js prints the report of the conflicts findVersionConflicts returned
PrintReport ==
  /\ analysis.op = "findVersionConflicts"
  /\ analysis.status = "returned"
  /\ analysis.result.kind = "resolved"
  /\ analysis' = [analysis EXCEPT
                    !.status = "reported",
                    !.report = VersionConflictAnalyzer_printReport(analysis.result.value)]
  /\ UNCHANGED <<graph, last, again, ret, writes, compat, call, cli, calls>>

NextAnalysis ==
  \/ \E parsedData \in ConflictRecords : WithinBound(parsedData) /\ StartBuild(parsedData)
  \/ ExecuteStatement
  \/ \E op \in AnalysisOperations, name \in {"C", Null} : RunAnalysis(op, name)
  \/ \E outcome \in QueryOutcomes : AnswerQuery(outcome)
  \/ PrintReport

SpecAnalysis == Init /\ [][NextAnalysis]_vars

(***************************************************************************)
(* The command line programs: index.js (analyzeProject) loads one project  *)
(* into the store, analyze.js (main) runs one analysis.  Each run is a     *)
(* process of its own; the store outlives it.                              *)
(***************************************************************************)
AnalyzeOptions == {"--help", "--circular-stats", "--circular-direct", "--project",
                   "--circular", "--conflicts", "--conflict-stats", "--package",
                   "--unknown"}
\* options that read the name that follows them
ScopedOptions == {"--project", "--package"}

AnalyzeArgs == {Args(o, v, FALSE, NoRecord) : o \in AnalyzeOptions, v \in {Null, "A"}}
\* a project path with a manifest, or one without package.json and requirements.txt:
\* project A with a requirements.txt of requirements of C and B, project B with a
\* package.json that names A and C, so that the store can hold a conflict on C and,
\* once linked, a cycle between A and B
IndexArgs ==
  {Args(Null, Null, c, m) :
     c \in BOOLEAN,
     m \in {_parseRequirementsTxt(<<"A">>, content) :
             content \in RequirementsTxts({<<"C", "=", "=", "1", ".", "0">>, <<"B">>})}
          \cup {_parsePackageJson(<<"B">>, [name |-> "B",
                                           dependencies |-> <<Entry("A", Caret10),
                                                              Entry("C", Caret10)>>]),
                NoRecord}}

\* executeQuery calls of the try block of analyzeProject after linkPackageDependencies:
\* getProjectDependencies, getDependencyStats, and the four of client.getStats
NumReads == 6
\* statements of client.createConstraints
NumConstraints == 3

\* node src/analysis/analyze.js <option> [value]
RunAnalyze(args) ==
  /\ cli.pc \in {"idle", "exited"}
  /\ cli' = IF args.option = "--help"
              THEN [NoRun EXCEPT !.program = "analyze", !.args = args,
                                 !.pc = "exited", !.exitCode = "0"]
              ELSE [NoRun EXCEPT !.program = "analyze", !.args = args, !.pc = "connect"]
  /\ UNCHANGED <<graph, last, again, ret, writes, compat, call, analysis, calls>>

\* node src/index.js <path> [--clear]
RunIndex(args) ==
  /\ cli.pc \in {"idle", "exited"}
  /\ cli' = [NoRun EXCEPT !.program = "index", !.args = args, !.pc = "connect"]
  /\ writes' = writes + Len(args.manifest.dependencies)
  /\ UNCHANGED <<graph, last, again, ret, compat, call, analysis, calls>>

\* client.connect() resolves
Connect ==
  /\ cli.pc = "connect"
  /\ cli' = [cli EXCEPT !.connection = "open",
                        !.pc = IF cli.program = "analyze" THEN "body"
                               ELSE IF cli.args.clear THEN "clear"
                               ELSE "parse"]
  /\ UNCHANGED <<graph, last, again, ret, writes, compat, call, analysis, calls>>

\* client.connect() throws: both programs end in process.exit(1)
ConnectFails ==
  /\ cli.pc = "connect"
  /\ cli' = [cli EXCEPT !.pc = "exited", !.failed = TRUE, !.exitCode = "1"]
  /\ UNCHANGED <<graph, last, again, ret, writes, compat, call, analysis, calls>>

\* the try block of analyze.js main up to its first awaited query: a scoped option
\* without its name and an unknown option call process.exit(1) inside the block, every
\* other option calls an operation of an analyzer, which sends its first query
AnalyzeBody ==
  /\ cli.program = "analyze" /\ cli.pc = "body"
  /\ cli' = IF \/ cli.args.option \in ScopedOptions /\ cli.args.value = Null
               \/ cli.args.option = "--unknown"
              THEN [cli EXCEPT !.pc = "exited", !.failed = TRUE, !.exitCode = "1"]
              ELSE LET op == CASE cli.args.option = "--circular-stats" ->
                                    "CircularDependencyAnalyzer.getStatistics"
                               [] cli.args.option = "--circular-direct" ->
                                    "findDirectCircularDependencies"
                               [] cli.args.option = "--project" ->
                                    "findProjectCircularDependencies"
                               [] cli.args.option = "--circular" -> "findCircularDependencies"
                               [] cli.args.option = "--conflicts" -> "findVersionConflicts"
                               [] cli.args.option = "--conflict-stats" ->
                                    "VersionConflictAnalyzer.getStatistics"
                               [] cli.args.option = "--package" -> "findPackageConflict"
                   IN [cli EXCEPT !.pc = "query", !.op = op, !.query = op]
  /\ UNCHANGED <<graph, last, again, ret, writes, compat, call, analysis, calls>>

\* the store answers the query main awaits, from what it holds now.  The operation
\* sends its next query, or returns to main: --circular and --conflicts go on with
\* getStatistics when the list is not empty, a getStatistics that returned null makes
\* main throw on stats.totalCycles or stats.totalPackages, and an error that reaches
\* the catch block of main ends in process.exit(1); otherwise the try block is done
AnalyzeQuery(outcome) ==
  /\ cli.program = "analyze" /\ cli.pc = "query"
  /\ \E rows \in QueryResults(graph, cli.query, cli.args.value) :
       LET answer == AnalysisAnswer(cli.op, cli.query, outcome, rows, cli.kept)
           statistics == cli.op \in {"CircularDependencyAnalyzer.getStatistics",
                                     "VersionConflictAnalyzer.getStatistics"}
           sent == [cli EXCEPT !.n = @ + 1, !.kept = <<>>]
       IN cli' =
            IF answer.kind = "continue"
              THEN [sent EXCEPT !.query = answer.query,
                                !.kept = IF cli.query = "VersionConflictAnalyzer.getStatistics"
                                           THEN rows ELSE cli.kept]
            ELSE IF answer.kind = "rejected" \/ (statistics /\ answer.value = JsNull)
              THEN [sent EXCEPT !.pc = "exited", !.failed = TRUE, !.exitCode = "1"]
            ELSE IF cli.op = "findCircularDependencies" /\ Len(answer.value) > 0
              THEN [sent EXCEPT !.op = "CircularDependencyAnalyzer.getStatistics",
                                !.query = "CircularDependencyAnalyzer.getStatistics"]
            ELSE IF cli.op = "findVersionConflicts" /\ Len(answer.value) > 0
              THEN [sent EXCEPT !.op = "VersionConflictAnalyzer.getStatistics",
                                !.query = "VersionConflictAnalyzer.getStatistics"]
            ELSE [sent EXCEPT !.pc = "finally"]
  /\ UNCHANGED <<graph, last, again, ret, writes, compat, call, analysis, calls>>

\* the try block of analyzeProject, one awaited statement at a time
\* client.clearDatabase(): MATCH (n) DETACH DELETE n
ClearDatabase ==
  /\ cli.program = "index" /\ cli.pc = "clear"
  /\ graph' = EmptyGraph
  /\ cli' = [cli EXCEPT !.pc = "constraints", !.n = 1]
  /\ UNCHANGED <<last, again, ret, writes, compat, call, analysis, calls>>

\* client.createConstraints(): three statements, each in a try block of its own that
\* logs a failure and goes on; a constraint changes no node and no relationship
CreateConstraint ==
  /\ cli.program = "index" /\ cli.pc = "constraints"
  /\ cli' = IF cli.n = NumConstraints THEN [cli EXCEPT !.pc = "parse", !.n = 0]
            ELSE [cli EXCEPT !.n = @ + 1]
  /\ UNCHANGED <<graph, last, again, ret, writes, compat, call, analysis, calls>>

\* the parser reads the manifest; without package.json and requirements.txt the block
\* throws before it writes
ParseProject ==
  /\ cli.program = "index" /\ cli.pc = "parse"
  /\ cli' = IF cli.args.manifest = NoRecord
              THEN [cli EXCEPT !.pc = "finally", !.failed = TRUE]
              ELSE [cli EXCEPT !.pc = "build", !.n = 1]
  /\ UNCHANGED <<graph, last, again, ret, writes, compat, call, analysis, calls>>

\* builder.buildProjectGraph(parsedData): its next executeQuery call
BuildStatement ==
  /\ cli.program = "index" /\ cli.pc = "build"
  /\ graph' = ApplyStatement(graph, cli.args.manifest, cli.n)
  /\ cli' = IF cli.n = NumStatements(cli.args.manifest) THEN [cli EXCEPT !.pc = "link", !.n = 0]
            ELSE [cli EXCEPT !.n = @ + 1]
  /\ UNCHANGED <<last, again, ret, writes, compat, call, analysis, calls>>

\* builder.linkPackageDependencies()
LinkStatement ==
  /\ cli.program = "index" /\ cli.pc = "link"
  /\ graph' \in LinkedGraphs(graph)
  /\ cli' = [cli EXCEPT !.pc = "report", !.n = 1]
  /\ UNCHANGED <<last, again, ret, writes, compat, call, analysis, calls>>

\* getProjectDependencies, getDependencyStats, client.getStats: the queries whose
\* results the run prints
ReportQuery ==
  /\ cli.program = "index" /\ cli.pc = "report"
  /\ cli' = IF cli.n = NumReads THEN [cli EXCEPT !.pc = "finally", !.n = 0]
            ELSE [cli EXCEPT !.n = @ + 1]
  /\ UNCHANGED <<graph, last, again, ret, writes, compat, call, analysis, calls>>

\* the awaited statement throws (any but a constraint): the statements before it are
\* committed, the catch block rethrows, finally still runs
AnalyzeProjectFails ==
  /\ cli.program = "index" /\ cli.pc \in {"clear", "parse", "build", "link", "report"}
  /\ cli' = [cli EXCEPT !.pc = "finally", !.failed = TRUE]
  /\ UNCHANGED <<graph, last, again, ret, writes, compat, call, analysis, calls>>

\* finally { await client.close() }, then the process ends: with code 0 when the try
\* block completed, through main's catch and process.exit(1) when it threw
Finally ==
  /\ cli.pc = "finally"
  /\ cli' = [cli EXCEPT !.connection = "closed", !.pc = "exited",
                        !.exitCode = IF cli.failed THEN "1" ELSE "0"]
  /\ UNCHANGED <<graph, last, again, ret, writes, compat, call, analysis, calls>>

NextCli ==
  \/ \E args \in AnalyzeArgs : RunAnalyze(args)
  \/ \E args \in IndexArgs : WithinBound(args.manifest) /\ RunIndex(args)
  \/ Connect
  \/ ConnectFails
  \/ AnalyzeBody
  \/ \E outcome \in QueryOutcomes : AnalyzeQuery(outcome)
  \/ ClearDatabase
  \/ CreateConstraint
  \/ ParseProject
  \/ BuildStatement
  \/ LinkStatement
  \/ ReportQuery
  \/ AnalyzeProjectFails
  \/ Finally

SpecCli == Init /\ [][NextCli]_vars

(***************************************************************************)
(* isCompatible applied to a pair of version strings                       *)
(***************************************************************************)
InitCompatible ==
  /\ graph = EmptyGraph
  /\ last = [op |-> "none", rec |-> NoRecord]
  /\ again = FALSE
  /\ ret = JsUndefined
  /\ writes = 0
  /\ compat \in [version1 : VersionStrings, version2 : VersionStrings, result : {"pending"}]
  /\ call = NoCall
  /\ cli = NoRun
  /\ analysis = NoAnalysis
  /\ calls = NoCalls

IsCompatible ==
  /\ compat.result = "pending"
  /\ compat' = [compat EXCEPT !.result =
                  IF isCompatible(compat.version1, compat.version2) THEN "true" ELSE "false"]
  /\ UNCHANGED <<graph, last, again, ret, writes, call, cli, analysis, calls>>

SpecCompatible == InitCompatible /\ [][IsCompatible]_vars

(***************************************************************************)
(* Properties                                                              *)
(***************************************************************************)
Counts(g) == <<Cardinality(g.projects), Cardinality(g.packages), Cardinality(g.files),
               Cardinality(g.dependsOn), Cardinality(g.hasFile)>>

\* direct Project-to-Package relationships of the graph, read off the relationship set
DirectRelsTo(g, packageName) ==
  {r \in g.dependsOn : r.fromLabel = "Project" /\ r.to = packageName}
DirectRelsFrom(g, projectName) ==
  {r \in g.dependsOn : r.fromLabel = "Project" /\ r.from = projectName}
DependingProjects(g, packageName) == {r.from : r \in DirectRelsTo(g, packageName)}
ConstraintsOn(g, packageName) == {r.versionConstraint : r \in DirectRelsTo(g, packageName)}
DerivedRels(g) == {r \in g.dependsOn : r.fromLabel = "Package"}
DerivedPairs(g) == {<<r.from, r.to>> : r \in DerivedRels(g)}

\* the step in which a buildProjectGraph call returns
BuildReturns == call.status = "running" /\ call'.status = "returned"
\* the step of a linkPackageDependencies call
LinkRuns == call.status # "running" /\ call' = call /\ last'.op = "link"
\* the last call that completed is of the given operation, and no call is running
Completed(op) == last.op = op /\ call.status # "running"

\* C1: a buildProjectGraph call that repeats the call before it with the same
\* Manifest Record leaves the numbers of Project, Package and File nodes and of
\* DEPENDS_ON and HAS_FILE relationships as the first call left them.
C1_BuildTwiceKeepsCounts ==
  [][(BuildReturns /\ again') => Counts(graph') = Counts(call.start)]_vars

\* a record with dependencies has just been ingested a second time in a row
C1_Witness == again /\ Completed("build") /\ Len(last.rec.dependencies) > 0

\* C2: a package is in the result of findVersionConflicts exactly when at least two
\* projects depend on it directly and their relationships carry at least two distinct
\* constraint strings.
C2_ConflictIffDistinctConstraints ==
  \A conflicts \in findVersionConflicts(graph) :
    \A p \in PackageNames :
      (\E i \in 1..Len(conflicts) : conflicts[i].packageName = p)
      <=> /\ Cardinality(DependingProjects(graph, p)) >= 2
          /\ Cardinality(ConstraintsOn(graph, p)) >= 2

\* one package is reported, another one is shared by two projects or used by one only
C2_Witness ==
  /\ \E conflicts \in findVersionConflicts(graph) : Len(conflicts) > 0
  /\ \E p \in PackageNames :
       /\ DependingProjects(graph, p) # {}
       /\ Cardinality(ConstraintsOn(graph, p)) = 1

\* C3: the primary strategy and the fallback return the same packages in the same
\* order, each with the same set of {project, version, type} entries.
C3_PrimaryEqualsFallback ==
  \A primary \in findVersionConflicts(graph) :
    \A basic \in findVersionConflictsBasic(graph) :
      /\ Len(primary) = Len(basic)
      /\ \A i \in 1..Len(primary) :
           /\ primary[i].packageName = basic[i].packageName
           /\ Range(primary[i].dependencies) = Range(basic[i].dependencies)

\* a conflict whose entries differ in type as well as in version, and which the two
\* strategies may return with the entries in different orders
C3_Witness ==
  /\ \E basic \in findVersionConflictsBasic(graph) :
       \E i \in 1..Len(basic) :
         \E d, e \in Range(basic[i].dependencies) :
           d.type # e.type /\ d.version # e.version
  /\ \E primary \in findVersionConflicts(graph) :
       \E basic \in findVersionConflictsBasic(graph) : primary # basic

\* C4: findPackageConflict returns null when the relationships to the named package
\* carry zero or one distinct constraint strings (unknown package, single project) and
\* otherwise a {packageName, dependencies} record that lists every depending project.
C4_PackageConflict ==
  \A name \in PackageNames \cup {"unknown"} :
    LET constraints == ConstraintsOn(graph, name)
        projects == DependingProjects(graph, name)
    IN \A found \in findPackageConflict(graph, name) :
         IF Cardinality(constraints) <= 1
           THEN found = NoConflict
           ELSE /\ found.kind = "record"
                /\ found.packageName = name
                /\ {d.project : d \in Range(found.dependencies)} = projects
                /\ Len(found.dependencies) = Cardinality(projects)

\* one package has a conflict while another, with one depending project, has none
C4_Witness ==
  /\ \E name \in PackageNames :
       \E found \in findPackageConflict(graph, name) : found.kind = "record"
  /\ \E name \in PackageNames :
       /\ Cardinality(DependingProjects(graph, name)) = 1
       /\ findPackageConflict(graph, name) = {NoConflict}

\* the three cases in which the claim says two constraints are compatible
CompatibleCase(a, b) ==
  \/ a = b
  \/ /\ StartsWith(a, "^") /\ StartsWith(b, "^")
     /\ getMajor(a) = getMajor(b)
  \/ /\ StartsWith(a, "~") /\ StartsWith(b, "~")
     /\ getMajor(a) = getMajor(b)
     /\ getMinor(a) = getMinor(b)

\* C5: isCompatible is true exactly for identical strings, two caret constraints with
\* equal major numbers, and two tilde constraints with equal major and minor numbers.
C5_IsCompatibleCases ==
  compat.result # "pending" =>
    (compat.result = "true" <=> CompatibleCase(compat.version1, compat.version2))

\* two different tilde constraints with numeric, equal major and minor were compared
C5_Witness ==
  /\ compat.result = "true"
  /\ compat.version1 # compat.version2
  /\ StartsWith(compat.version1, "~") /\ StartsWith(compat.version2, "~")
  /\ getMinor(compat.version1) # NoNumber

\* rows of one length in ascending order of their names
NamesBefore(a, b) ==
  \E k \in 1..Len(a.packages) :
    /\ \A i \in 1..(k - 1) : a.packages[i] = b.packages[i]
    /\ NameLess(a.packages[k], b.packages[k])

SortByNames(S) ==
  LET before == [x \in S |-> Cardinality({y \in S : NamesBefore(y, x)})]
  IN [i \in 1..Cardinality(S) |-> CHOOSE x \in S : before[x] = i - 1]

Reverse(rows) == [i \in 1..Len(rows) |-> rows[Len(rows) + 1 - i]]

Limit(rows, n) == SubSeq(rows, 1, Min(Len(rows), n))

\* the rows of S of length n and longer, shortest first, the rows of one length in
\* every order or in one of the two orders of their names
RECURSIVE FromLength(_, _, _)
FromLength(S, n, mode) ==
  IF \A x \in S : x.length < n THEN {<<>>}
  ELSE LET tied == {x \in S : x.length = n}
           firsts == CASE mode = "any" -> MatchOrders(tied)
                       [] mode = "ascending" -> {SortByNames(tied)}
                       [] mode = "descending" -> {Reverse(SortByNames(tied))}
       IN {first \o rest : first \in firsts, rest \in FromLength(S, n + 1, mode)}

\* the rows of S by length, the rows of one length in every order while no length has
\* more than MaxTied rows, and in the two orders of their names when one has
ByLength(S) ==
  IF \A x \in S : Cardinality({y \in S : y.length = x.length}) <= MaxTied
    THEN FromLength(S, 0, "any")
    ELSE FromLength(S, 0, "ascending") \cup FromLength(S, 0, "descending")

\* the sequences a claim about a cycle query is examined on: the first n of the rows
\* of S by length, shortest first and longest first
Candidates(S, n) ==
  {Limit(rows, n) : rows \in ByLength(S)} \cup {Limit(Reverse(rows), n) : rows \in ByLength(S)}

\* every cycle the store holds, as a row of a result
CycleEntries(g) == CycleRows(CyclePaths(g))
\* the cycles that start at a package the project depends on directly
ProjectCycleEntries(g, projectName) ==
  {e \in CycleEntries(g) : DependsOnRels(g, "Project", projectName, e.packages[1]) # {}}

\* the results findCircularDependencies may return among the sequences examined: all
\* of its results while no length has more than MaxTied cycles
AllCycles(g) ==
  LET results == findCircularDependencies(g)
  IN {cycles \in Candidates(CycleEntries(g), CycleLimit) : cycles \in results}
\* the same of findProjectCircularDependencies
ProjectCycles(g, projectName) ==
  LET results == findProjectCircularDependencies(g, projectName)
  IN {cycles \in Candidates(ProjectCycleEntries(g, projectName), ProjectCycleLimit) :
        cycles \in results}

\* the direct relationships are exactly A -> B, B -> C, C -> A
TriangleIngested(g) ==
  {<<r.from, r.to>> : r \in {x \in g.dependsOn : x.fromLabel = "Project"}}
    = {<<"A", "B">>, <<"B", "C">>, <<"C", "A">>}

\* entries of a findCircularDependencies result with the given length that visit
\* exactly names
CyclesOver(cycles, names, n) ==
  {i \in 1..Len(cycles) : cycles[i].length = n /\ Range(cycles[i].packages) = names}

\* C6: with A -> B, B -> C, C -> A ingested and linked, findCircularDependencies
\* returns exactly one cycle of length 3 over {A, B, C} and
\* findDirectCircularDependencies returns no pair.
C6_TriangleReportedOnce ==
  (TriangleIngested(graph) /\ Completed("link")) =>
    /\ \A cycles \in AllCycles(graph) :
         Cardinality(CyclesOver(cycles, {"A", "B", "C"}, 3)) = 1
    /\ \A direct \in findDirectCircularDependencies(graph) : Len(direct) = 0

\* pairs of packages that depend on each other through Package-to-Package relationships
MutualPairs(g) ==
  {p \in PackageNames \X PackageNames :
     /\ NameLess(p[1], p[2])
     /\ <<p[1], p[2]>> \in DerivedPairs(g)
     /\ <<p[2], p[1]>> \in DerivedPairs(g)}

\* C7: findDirectCircularDependencies reports each pair of mutually dependent
\* packages exactly once, the first name sorting before the second, and
\* findCircularDependencies reports a cycle of length 2 for each such pair.
C7_DirectCyclesOncePerPair ==
  /\ \A direct \in findDirectCircularDependencies(graph) :
       /\ \A i \in 1..Len(direct) :
            /\ NameLess(direct[i].package1, direct[i].package2)
            /\ <<direct[i].package1, direct[i].package2>> \in MutualPairs(graph)
       /\ \A p \in MutualPairs(graph) :
            Cardinality({i \in 1..Len(direct) :
                           direct[i] = [package1 |-> p[1], package2 |-> p[2]]}) = 1
  /\ MutualPairs(graph) # {} =>
       \A cycles \in AllCycles(graph) :
         \A p \in MutualPairs(graph) : CyclesOver(cycles, {p[1], p[2]}, 2) # {}

\* two projects that depend on each other have been linked, and both queries have a
\* result to return
C7_Witness ==
  /\ MutualPairs(graph) # {} /\ Completed("link")
  /\ AllCycles(graph) # {}
  /\ \E direct \in findDirectCircularDependencies(graph) : Len(direct) > 0

\* C8: on a graph without cycles getStatistics returns zero in all four fields.
C8_ZeroStatistics ==
  CyclePaths(graph) = {} => getStatistics(graph) = ZeroStatistics

\* C9: a linkPackageDependencies call that follows another one returns the same count
\* and leaves the Package-to-Package relationships as they were; no ordered pair of
\* packages ever has two of them.
C9_LinkTwice ==
  [][/\ (last.op = "link" /\ LinkRuns) =>
          (ret' = ret /\ DerivedRels(graph') = DerivedRels(graph))
     /\ \A p \in DerivedPairs(graph') :
          Cardinality(DependsOnRels(graph', "Package", p[1], p[2])) = 1]_vars

\* the link step has run twice in a row on a graph with derived relationships
C9_Witness == again /\ last.op = "link" /\ DerivedRels(graph) # {} /\ ret.val > 0

\* C10: getProjectDependencies returns one entry per direct relationship of the
\* project, in ascending order of package name, each with the constraint, type and
\* line number of its relationship.
C10_ProjectDependencies ==
  \A p \in ProjectNames :
    LET rows == getProjectDependencies(graph, p)
    IN /\ Len(rows) = Cardinality(DirectRelsFrom(graph, p))
       /\ \A i, j \in 1..Len(rows) : i < j => NameLess(rows[i].name, rows[j].name)
       /\ \A r \in DirectRelsFrom(graph, p) :
            \E i \in 1..Len(rows) :
              /\ rows[i].name = r.to
              /\ rows[i].constraint = r.versionConstraint
              /\ rows[i].type = r.type
              /\ rows[i].lineNumber = r.lineNumber

\* a requirements.txt that lists C without a version on line 1 and A on line 2 has been
\* ingested: the rows are A with line 2, then C with line 1 and the constraint latest
C10_Witness ==
  /\ last.op = "build"
  /\ Len(last.rec.dependencies) = 2
  /\ NameLess(last.rec.dependencies[2].name, last.rec.dependencies[1].name)
  /\ LET rows == getProjectDependencies(graph, last.rec.projectName)
     IN /\ Len(rows) = 2
        /\ rows[1].lineNumber = 2 /\ rows[1].constraint = last.rec.dependencies[2].versionRange
        /\ rows[2].lineNumber = 1 /\ rows[2].constraint = Latest

RECURSIVE SumCounts(_, _)
SumCounts(stats, types) ==
  IF types = {} THEN 0
  ELSE LET t == CHOOSE x \in types : TRUE
       IN stats[t].val + SumCounts(stats, types \ {t})

\* C11: getDependencyStats has one key per dependency type that a direct relationship
\* of the project carries, its value counts the project's relationships of that type,
\* and the values sum to the number of entries of getProjectDependencies.
C11_DependencyStats ==
  \A p \in ProjectNames :
    LET stats == getDependencyStats(graph, p)
        rels == DirectRelsFrom(graph, p)
    IN /\ DOMAIN stats = {r.type : r \in rels}
       /\ \A t \in DOMAIN stats : stats[t].val = Cardinality({r \in rels : r.type = t})
       /\ SumCounts(stats, DOMAIN stats) = Len(getProjectDependencies(graph, p))

\* one project has one production and one peer dependency, another has its own
C11_Witness ==
  /\ \E p \in ProjectNames :
       /\ DOMAIN getDependencyStats(graph, p) = {"production", "peer"}
       /\ getDependencyStats(graph, p)["production"].val = 1
       /\ getDependencyStats(graph, p)["peer"].val = 1
  /\ Cardinality({r.from : r \in DirectRows(graph)}) = 2


\* the statement of C12 as the specification words it: both endpoints of a derived
\* relationship name Project nodes and the source project depends on the target directly
C12_DerivedBetweenProjects ==
  \A r \in DerivedRels(graph) :
    /\ ProjectNodes(graph, r.from) # {}
    /\ ProjectNodes(graph, r.to) # {}
    /\ DependsOnRels(graph, "Project", r.from, r.to) # {}

\* C12: a derived Package-to-Package relationship exists only when its source names a
\* Project node that has a direct relationship to the target Package; the target need
\* not name a Project.
C12_DerivedFromProject ==
  \A r \in DerivedRels(graph) :
    /\ ProjectNodes(graph, r.from) # {}
    /\ PackageNodes(graph, r.from) # {}
    /\ PackageNodes(graph, r.to) # {}
    /\ DependsOnRels(graph, "Project", r.from, r.to) # {}

\* the link step derived one relationship to a project and one to a package that no
\* project is named after
C12_Witness ==
  /\ \E r \in DerivedRels(graph) : r.from # r.to /\ ProjectNodes(graph, r.to) # {}
  /\ \E r \in DerivedRels(graph) : ProjectNodes(graph, r.to) = {}

\* C13: after every statement of every call, each DEPENDS_ON relationship that starts
\* at a Project ends at a Package node of the store, and when buildProjectGraph has
\* returned, every record of its list has its relationship to an existing Package node.
C13_EdgeTargetsExist ==
  /\ \A r \in graph.dependsOn :
       r.fromLabel = "Project" =>
         ProjectNodes(graph, r.from) # {} /\ PackageNodes(graph, r.to) # {}
  /\ call.status = "returned" =>
       \A i \in 1..Len(last.rec.dependencies) :
         /\ PackageNodes(graph, last.rec.dependencies[i].name) # {}
         /\ DependsOnRels(graph, "Project", last.rec.projectName,
                          last.rec.dependencies[i].name) # {}

\* a call stands between the two statements of a record: the Package node is there,
\* the relationship to it is not yet
C13_Witness ==
  /\ call.status = "running"
  /\ call.pc > 1
  /\ call.pc % 2 = 1
  /\ PackageNodes(graph, call.rec.dependencies[RecordOf(call.pc)].name) # {}
  /\ DependsOnRels(graph, "Project", call.rec.projectName,
                   call.rec.dependencies[RecordOf(call.pc)].name) = {}

\* C14: the conflict statistics give the number of distinct package names of the
\* store, the number of packages that more than one project depends on, and the
\* length of the findVersionConflicts result, in every state of the store.
C14_ConflictStatistics ==
  \A stats \in VersionConflictAnalyzer_getStatistics(graph) :
    /\ stats.totalPackages.val = Cardinality({n.name : n \in graph.packages})
    /\ stats.sharedPackages.val =
         Cardinality({p \in PackageNames : Cardinality(DependingProjects(graph, p)) > 1})
    /\ \A conflicts \in findVersionConflicts(graph) :
         stats.conflictingPackages.val = Len(conflicts)

\* C15: a command line run that opened the store connection has closed it when the
\* process has exited, whatever the exit code.
C15_ConnectionClosedOnExit ==
  cli.pc = "exited" => cli.connection # "open"

\* C16: when linkPackageDependencies has run, every direct relationship of a Project
\* whose name is also the name of a Package node has a Package-to-Package
\* relationship beside it, and each relationship the run created carries the
\* constraint and type of that direct relationship and the source tag "derived".
C16_LinkDerivesEveryEdge ==
  [][LinkRuns =>
       /\ \A r \in graph'.dependsOn :
            (r.fromLabel = "Project" /\ PackageNodes(graph', r.from) # {}) =>
              DependsOnRels(graph', "Package", r.from, r.to) # {}
       /\ \A d \in DerivedRels(graph') \ DerivedRels(graph) :
            /\ d.source = "derived"
            /\ \E r \in DependsOnRels(graph, "Project", d.from, d.to) :
                 d.versionConstraint = r.versionConstraint /\ d.type = r.type]_vars

\* the link step has just created a development relationship and a ~2.0 relationship
C16_Witness ==
  /\ last.op = "link"
  /\ ~again
  /\ \E d \in DerivedRels(graph) : d.type = "development" /\ d.source = "derived"
  /\ \E d \in DerivedRels(graph) : d.versionConstraint = Tilde20

\* C17: no step changes or removes a Package-to-Package relationship that exists; in
\* particular a link step after a re-ingestion with another constraint or type
\* leaves the derived relationship with the attributes of its creation.
C17_DerivedEdgesUntouched ==
  [][DerivedRels(graph) \subseteq DerivedRels(graph')]_vars

\* the link step has run after a re-ingestion, and a derived relationship differs from
\* the direct relationship it was copied from
C17_Witness ==
  /\ last.op = "link"
  /\ \E d \in DerivedRels(graph) :
       \E r \in DependsOnRels(graph, "Project", d.from, d.to) :
         d.versionConstraint # r.versionConstraint /\ d.type # r.type

\* no two nodes share a key and no two relationships join the same pair of nodes
UniqueKeys(g) ==
  /\ \A m, n \in g.projects : m.name = n.name => m = n
  /\ \A m, n \in g.packages : m.name = n.name => m = n
  /\ \A m, n \in g.files : m.path = n.path => m = n
  /\ \A r, s \in g.dependsOn :
       (r.fromLabel = s.fromLabel /\ r.from = s.from /\ r.to = s.to) => r = s
  /\ \A r, s \in g.hasFile : (r.from = s.from /\ r.to = s.to) => r = s

\* the last record of a dependency list that names the package
LastRecordOf(dependencies, name) ==
  dependencies[CHOOSE i \in 1..Len(dependencies) :
                 /\ dependencies[i].name = name
                 /\ \A j \in (i + 1)..Len(dependencies) : dependencies[j].name # name]

\* the constraint a dependency record declares: its version range, or its version
\* when the range is empty (a requirement without a version has the version latest)
DeclaredConstraint(dep) == IF dep.versionRange = <<>> THEN dep.version ELSE dep.versionRange
\* the manifest line of a dependency record, 0 when it knows none
DeclaredLine(dep) == IF "lineNumber" \in DOMAIN dep THEN dep.lineNumber ELSE 0

\* C18: after every call the store has at most one Project per name, one Package per
\* name, one File per path, one DEPENDS_ON relationship per ordered pair of nodes and
\* one HAS_FILE relationship per pair; after buildProjectGraph the project's
\* relationship to each listed package carries the constraint, the type and the line
\* number of the last record of the list that names the package.
C18_UniqueAndOverwritten ==
  [][/\ UniqueKeys(graph')
     /\ BuildReturns =>
          \A i \in 1..Len(last'.rec.dependencies) :
            LET name == last'.rec.dependencies[i].name
                dep == LastRecordOf(last'.rec.dependencies, name)
            IN \A r \in DependsOnRels(graph', "Project", last'.rec.projectName, name) :
                 /\ r.versionConstraint = DeclaredConstraint(dep)
                 /\ r.type = dep.type
                 /\ r.lineNumber = DeclaredLine(dep)]_vars

\* a project has been ingested again, from a requirements.txt, with another constraint,
\* type and line number for a package it already had a relationship to, which the
\* derived relationship still shows
C18_Witness ==
  /\ last.op = "build"
  /\ \E d \in DerivedRels(graph) :
       /\ d.from = last.rec.projectName
       /\ \E r \in DependsOnRels(graph, "Project", d.from, d.to) :
            /\ d.versionConstraint # r.versionConstraint /\ d.type # r.type
            /\ r.lineNumber > 0

NamedIn(dependencies, name) == \E i \in 1..Len(dependencies) : dependencies[i].name = name

\* C19: a buildProjectGraph call leaves on every Package node that its list names the
\* version and operator of the last record of the list with that name, whatever an
\* earlier record or another project stored there, and leaves the other Package nodes
\* as they were; linkPackageDependencies changes no Package node.
C19_PackageLastWriteWins ==
  [][/\ BuildReturns =>
          \A n \in graph'.packages :
            IF NamedIn(last'.rec.dependencies, n.name)
              THEN /\ n.version = LastRecordOf(last'.rec.dependencies, n.name).version
                   /\ n.operator = LastRecordOf(last'.rec.dependencies, n.name).operator
              ELSE n \in call.start.packages
     /\ LinkRuns => graph'.packages = graph.packages]_vars

\* a list that names one package twice with different versions has been ingested
\* after another project had declared the package with the first of them
C19_Witness ==
  /\ last.op = "build"
  /\ Len(last.rec.dependencies) = 2
  /\ last.rec.dependencies[1].name = last.rec.dependencies[2].name
  /\ last.rec.dependencies[1].version # last.rec.dependencies[2].version
  /\ \E r \in DirectRelsTo(graph, last.rec.dependencies[1].name) :
       /\ r.from # last.rec.projectName
       /\ r.versionConstraint = last.rec.dependencies[1].versionRange
  /\ PackageVersion(graph, last.rec.dependencies[1].name) = last.rec.dependencies[2].version

\* the store after the Project statement and the statements of the first n records
AppliedPrefix(g, parsedData, n) ==
  _createDependencyNodes(_createProjectNode(g, parsedData), parsedData.projectName,
                         SubSeq(parsedData.dependencies, 1, n))

\* C20: when a statement of the k-th record has failed, buildProjectGraph has thrown
\* the error and stopped: the store holds the Project node and the package and
\* relationship upserts of records 1..k-1 (and the package of record k when its
\* relationship statement was the one that failed), no relationship of record k or a
\* later record, and the File nodes and HAS_FILE relationships the call found.
C20_MidListFailure ==
  (call.failedAt > 1 /\ call.failedAt < NumStatements(call.rec)) =>
    LET k == RecordOf(call.failedAt)
        prefix == AppliedPrefix(call.start, call.rec, k - 1)
    IN /\ call.status = "thrown"
       /\ ret = JsThrown
       /\ graph.projects = prefix.projects
       /\ graph.dependsOn = prefix.dependsOn
       /\ graph.packages = IF call.failedAt % 2 = 1
                             THEN MergePackage(prefix, call.rec.dependencies[k]).packages
                             ELSE prefix.packages
       /\ graph.files = call.start.files
       /\ graph.hasFile = call.start.hasFile

\* the relationship statement of the second record failed in the first ingestion of
\* the project: the first record is in the store whole, the second as a Package only
C20_Witness ==
  /\ call.status = "thrown"
  /\ call.failedAt = 2 * Len(call.rec.dependencies) + 1
  /\ Len(call.rec.dependencies) > 1
  /\ call.rec.dependencies[1].name # call.rec.dependencies[2].name
  /\ ProjectNodes(graph, call.rec.projectName) # {}
  /\ DependsOnRels(graph, "Project", call.rec.projectName,
                   call.rec.dependencies[1].name) # {}
  /\ PackageNodes(graph, call.rec.dependencies[2].name) # {}
  /\ DependsOnRels(graph, "Project", call.rec.projectName,
                   call.rec.dependencies[2].name) = {}
  /\ graph.files = {}

\* the names of an entry form a simple cycle: the first name is the last one and no
\* name occurs twice among the others
SimpleCycle(packages) ==
  /\ packages[1] = packages[Len(packages)]
  /\ \A i, j \in 1..(Len(packages) - 1) : i # j => packages[i] # packages[j]

\* C21: every entry of findCircularDependencies is a path of Package-to-Package
\* relationships from a package back to itself, longer than 1, that visits no package
\* twice apart from its start; its length is its number of relationships, and no two
\* entries have the same names.
C21_SimpleCycles ==
  \A cycles \in AllCycles(graph) :
     /\ \A i \in 1..Len(cycles) :
          /\ cycles[i].length > 1
          /\ cycles[i].length = Len(cycles[i].packages) - 1
          /\ \A k \in 1..cycles[i].length :
               <<cycles[i].packages[k], cycles[i].packages[k + 1]>> \in DerivedPairs(graph)
          /\ SimpleCycle(cycles[i].packages)
     /\ \A i, j \in 1..Len(cycles) :
          cycles[i].packages = cycles[j].packages => i = j

\* a result lists entries of all by non-decreasing length, as many as the cap lets
\* through, and leaves out none that is shorter than one it lists
OrderedAndCapped(result, all, cap) ==
  /\ \A i \in 1..Len(result) : result[i] \in all
  /\ \A i, j \in 1..Len(result) : i < j => result[i].length <= result[j].length
  /\ Len(result) = (IF Cardinality(all) < cap THEN Cardinality(all) ELSE cap)
  /\ Cardinality(Range(result)) = Len(result)
  /\ \A e \in all \ Range(result) : \A i \in 1..Len(result) : result[i].length <= e.length

\* C22: findCircularDependencies returns the cycles by non-decreasing length, at most
\* 100, and omits no cycle shorter than one it returns; findProjectCircularDependencies
\* does the same with at most 50 of the cycles that start at a direct dependency of
\* the named project.
C22_OrderedAndCapped ==
  /\ \A cycles \in AllCycles(graph) :
       OrderedAndCapped(cycles, CycleEntries(graph), CycleLimit)
  /\ \A p \in ProjectNames :
       \A cycles \in ProjectCycles(graph, p) :
         OrderedAndCapped(cycles, ProjectCycleEntries(graph, p), ProjectCycleLimit)

\* the store holds more than 100 cycles of several lengths, and more than 50 of them
\* start at a dependency of a project that does not depend on every package
C22_Witness ==
  /\ Cardinality(CycleEntries(graph)) > CycleLimit
  /\ AllCycles(graph) # {}
  /\ \E p \in ProjectNames :
       /\ Cardinality(ProjectCycleEntries(graph, p)) > ProjectCycleLimit
       /\ ProjectCycleEntries(graph, p) # CycleEntries(graph)
       /\ ProjectCycles(graph, p) # {}

\* the operations C23 names
PropagatingOperations ==
  AnalysisOperations \ {"findVersionConflicts"}

\* C23: when the store query of an analysis operation fails, the operation rejects with
\* that failure and resolves with no result; this is stated for every operation but
\* findVersionConflicts, the two getStatistics included
C23_FailurePropagates ==
  (/\ analysis.op \in PropagatingOperations
   /\ analysis.status = "returned"
   /\ analysis.outcomes[1].failed)
    => analysis.result = Rejected(analysis.outcomes[1].message)

\* the operations whose catch block rethrows do propagate the failure
C23_RethrowingPropagate ==
  (/\ analysis.op \in PropagatingOperations
   /\ analysis.op \notin {"CircularDependencyAnalyzer.getStatistics",
                          "VersionConflictAnalyzer.getStatistics"}
   /\ analysis.status = "returned"
   /\ analysis.outcomes[1].failed)
    => analysis.result = Rejected(analysis.outcomes[1].message)

\* the step in which the store answers a query of the operation
QueryAnswered(op) ==
  analysis.op = op /\ analysis.status = "running" /\ analysis'.queries = analysis.queries + 1

\* the call has sent the query of findVersionConflictsBasic
FallbackRan(a) == a.op = "findVersionConflicts" /\ a.query = "findVersionConflictsBasic"

\* C24: findVersionConflicts runs findVersionConflictsBasic and returns its result if and
\* only if the primary query fails with the capability-missing failure; every other
\* failure of the primary query and every failure of the fallback rejects the call.
\* The result is the one of the store as it is when the query is answered.
C24_FallbackIffCapabilityMissing ==
  [][QueryAnswered("findVersionConflicts") =>
       /\ FallbackRan(analysis') <=> analysis'.outcomes[1] = QueryFailure(NoApocMessage)
       /\ (FallbackRan(analysis) /\ ~analysis'.outcomes[2].failed)
            => /\ analysis'.result.kind = "resolved"
               /\ analysis'.result.value \in findVersionConflictsBasic(graph)
       /\ (FallbackRan(analysis) /\ analysis'.outcomes[2].failed)
            => analysis'.result = Rejected(analysis'.outcomes[2].message)
       /\ (analysis'.outcomes[1].failed /\ ~FallbackRan(analysis'))
            => analysis'.result = Rejected(analysis'.outcomes[1].message)
       /\ ~analysis'.outcomes[1].failed
            => /\ analysis'.result.kind = "resolved"
               /\ analysis'.result.value \in findVersionConflicts(graph)]_vars

\* the primary query failed for want of apoc and the fallback returned a conflict; a
\* build call that runs beside the analysis has changed the store since
C24_Witness ==
  /\ FallbackRan(analysis)
  /\ analysis.status = "returned"
  /\ analysis.outcomes[1] = QueryFailure(NoApocMessage)
  /\ analysis.result.kind = "resolved"
  /\ Len(analysis.result.value) > 0
  /\ analysis.result.value \notin findVersionConflictsBasic(graph)

\* isCompatible holds for every unordered pair of the distinct versions of a conflict
DistinctPairsCompatible(conflict) ==
  \A v1 \in UniqueVersions(conflict.dependencies) :
    \A v2 \in UniqueVersions(conflict.dependencies) \ {v1} :
      isCompatible(v1, v2) /\ isCompatible(v2, v1)

\* C25: the verdict printed under a conflict is the compatible one if and only if
\* isCompatible holds for every unordered pair of the conflict's distinct version
\* strings, although the report computes it over the full list with its repeats
C25_VerdictOverDistinctPairs ==
  analysis.status = "reported" =>
    \A k \in 1..Len(analysis.result.value) :
      analysis.report[k] = "may be compatible"
        <=> DistinctPairsCompatible(analysis.result.value[k])

\* a reported conflict whose version list repeats a version, and one for each verdict
C25_Witness ==
  /\ analysis.status = "reported"
  /\ Len(analysis.result.value) > 0
  /\ Cardinality(UniqueVersions(analysis.result.value[1].dependencies))
       < Len(analysis.result.value[1].dependencies)
  /\ analysis.report[1] = "may be compatible"

C25_WitnessIncompatible ==
  /\ analysis.status = "reported"
  /\ Len(analysis.result.value) > 0
  /\ Cardinality(UniqueVersions(analysis.result.value[1].dependencies)) = 3
  /\ analysis.report[1] = "potential incompatibility"

\* a statement of the running call has been executed in this step
StatementExecuted ==
  /\ call.status = "running"
  /\ \/ call'.status = "running" /\ call'.pc = call.pc + 1 /\ call'.failedAt = 0
     \/ call'.status = "returned"

\* what the i-th statement of a call may write, and what it leaves behind
StatementEffect(i) ==
  LET parsedData == call.rec
      dep == parsedData.dependencies[RecordOf(i)]
  IN IF i = 1
       THEN /\ ProjectNodes(graph', parsedData.projectName) # {}
            /\ graph'.packages = graph.packages /\ graph'.dependsOn = graph.dependsOn
            /\ graph'.files = graph.files /\ graph'.hasFile = graph.hasFile
     ELSE IF i = NumStatements(parsedData)
       THEN /\ FileNodes(graph', parsedData.dependencyFile) # {}
            /\ HasFileRels(graph', parsedData.projectName, parsedData.dependencyFile) # {}
            /\ graph'.projects = graph.projects /\ graph'.packages = graph.packages
            /\ graph'.dependsOn = graph.dependsOn
     ELSE IF i % 2 = 0
       THEN /\ \E n \in PackageNodes(graph', dep.name) :
                 n.version = dep.version /\ n.operator = dep.operator
            /\ graph'.projects = graph.projects /\ graph'.dependsOn = graph.dependsOn
            /\ graph'.files = graph.files /\ graph'.hasFile = graph.hasFile
     ELSE /\ \E r \in DependsOnRels(graph', "Project", parsedData.projectName, dep.name) :
               /\ r.versionConstraint = DeclaredConstraint(dep)
               /\ r.type = dep.type
               /\ r.lineNumber = DeclaredLine(dep)
          /\ graph'.projects = graph.projects /\ graph'.packages = graph.packages
          /\ graph'.files = graph.files /\ graph'.hasFile = graph.hasFile

\* C26: a buildProjectGraph call sends one statement at a time, in this order: the
\* Project upsert; for each record in listed order its Package upsert, then its
\* relationship upsert; last the File and HAS_FILE upsert. When the call returns it has
\* processed as many records as the list holds, duplicates included.
C26_OneStatementAtATimeInOrder ==
  [][StatementExecuted =>
       /\ StatementEffect(call.pc)
       /\ call'.status = "returned" =>
            /\ call.pc = NumStatements(call.rec)
            /\ call.packagesCreated = Len(call.rec.dependencies)]_vars

\* a call whose list names package C twice, first without a version, has processed the
\* first record, whose relationship holds the constraint latest and the line of the
\* record, and stands at the Package upsert of the second
C26_Witness ==
  /\ call.status = "running"
  /\ Len(call.rec.dependencies) = 2
  /\ call.rec.dependencies[1].name = call.rec.dependencies[2].name
  /\ call.rec.dependencies[1].version # call.rec.dependencies[2].version
  /\ call.rec.dependencies[1].versionRange = <<>>
  /\ call.pc = 4
  /\ call.packagesCreated = 1
  /\ \E r \in DependsOnRels(graph, "Project", call.rec.projectName,
                             call.rec.dependencies[1].name) :
       /\ r.versionConstraint = Latest
       /\ r.lineNumber = call.rec.dependencies[1].lineNumber /\ r.lineNumber > 0

\* the nodes and relationships of a store, by the keys the statements match on
NodeKeys(g) ==
  {<<"Project", n.name>> : n \in g.projects}
  \cup {<<"Package", n.name>> : n \in g.packages}
  \cup {<<"File", n.path>> : n \in g.files}
EdgeKeys(g) ==
  {<<"DEPENDS_ON", r.fromLabel, r.from, r.to>> : r \in g.dependsOn}
  \cup {<<"HAS_FILE", "Project", r.from, r.to>> : r \in g.hasFile}

\* C27: no buildProjectGraph or linkPackageDependencies call removes a node or a
\* relationship: whatever existed before the call exists after it
C27_NothingRemoved ==
  [][/\ NodeKeys(graph) \subseteq NodeKeys(graph')
     /\ EdgeKeys(graph) \subseteq EdgeKeys(graph')
     /\ Cardinality(graph.projects) <= Cardinality(graph'.projects)
     /\ Cardinality(graph.packages) <= Cardinality(graph'.packages)
     /\ Cardinality(graph.dependsOn) <= Cardinality(graph'.dependsOn)]_vars

\* project A has been ingested again without its dependency on C: the direct
\* relationship to C and the derived one between the packages A and C are still there
C27_Witness ==
  /\ last.op = "build"
  /\ last.rec.projectName = "A"
  /\ \A i \in 1..Len(last.rec.dependencies) : last.rec.dependencies[i].name # "C"
  /\ DependsOnRels(graph, "Project", "A", "C") # {}
  /\ DependsOnRels(graph, "Package", "A", "C") # {}

\* the relationships from Project nodes
DirectEdges(g) == {r \in g.dependsOn : r.fromLabel = "Project"}

\* the store after the two calls have run one after the other, process 1 first
Sequential(parsedData1, parsedData2) ==
  buildProjectGraph(buildProjectGraph(EmptyGraph, parsedData1), parsedData2)

\* the packages both manifests name
SharedNames(parsedData1, parsedData2) ==
  {parsedData1.dependencies[i].name : i \in 1..Len(parsedData1.dependencies)}
  \cap {parsedData2.dependencies[i].name : i \in 1..Len(parsedData2.dependencies)}

BothReturned == \A p \in 1..2 : calls[p].status = "returned"

\* C28: two buildProjectGraph calls for projects A and B whose statements reach the
\* store interleaved in any order leave the nodes and the direct relationships that
\* the two calls leave when run one after the other: one Package node for a name both
\* manifests hold, and a relationship to it from each project
C28_InterleavedAsSequential ==
  BothReturned =>
    LET parsedData1 == calls[1].rec
        parsedData2 == calls[2].rec
        sequential == Sequential(parsedData1, parsedData2)
    IN /\ NodeKeys(graph) = NodeKeys(sequential)
       /\ NodeKeys(graph) = NodeKeys(Sequential(parsedData2, parsedData1))
       /\ Cardinality(graph.projects) = Cardinality(sequential.projects)
       /\ Cardinality(graph.packages) = Cardinality(sequential.packages)
       /\ DirectEdges(graph) = DirectEdges(sequential)
       /\ graph.dependsOn = DirectEdges(graph)
       /\ graph.files = sequential.files
       /\ graph.hasFile = sequential.hasFile
       /\ \A n \in SharedNames(parsedData1, parsedData2) :
            /\ Cardinality(PackageNodes(graph, n)) = 1
            /\ DependsOnRels(graph, "Project", parsedData1.projectName, n) # {}
            /\ DependsOnRels(graph, "Project", parsedData2.projectName, n) # {}

\* the whole store, attributes of the Package nodes included, is the store one of the
\* two sequential orders leaves
InterleavedAttributes ==
  BothReturned =>
    graph \in {Sequential(calls[1].rec, calls[2].rec), Sequential(calls[2].rec, calls[1].rec)}

\* both calls have returned, both manifests name package C under different constraints,
\* and the Package node holds the version of process 1 although process 1 started first
C28_Witness ==
  /\ BothReturned
  /\ "C" \in SharedNames(calls[1].rec, calls[2].rec)
  /\ calls[1].rec.dependencies[1].versionRange # calls[2].rec.dependencies[1].versionRange
  /\ Len(calls[1].rec.dependencies) = 1 /\ Len(calls[2].rec.dependencies) = 1
  /\ \E n \in PackageNodes(graph, "C") : n.version = calls[1].rec.dependencies[1].version

\* the manifest a project of the store was ingested with
ManifestOf(g, projectName) ==
  ParsedData(projectName,
             DependencyList({r.to : r \in {x \in DirectEdges(g) : x.from = projectName}}))

\* a graph the link query leaves
Linked(g) == CHOOSE g1 \in LinkedGraphs(g) : TRUE

\* the store after build and link of every project of the list, in the order of the list
RECURSIVE IngestInOrder(_, _, _)
IngestInOrder(g, source, projectNames) ==
  IF projectNames = <<>> THEN g
  ELSE IngestInOrder(Linked(buildProjectGraph(g, ManifestOf(source, Head(projectNames)))),
                     source, Tail(projectNames))

\* the projects of the store in ascending and in descending order of their names
Ascending(g) == SortNames({n.name : n \in g.projects})
Descending(g) ==
  [i \in 1..Len(Ascending(g)) |-> Ascending(g)[Len(Ascending(g)) + 1 - i]]

\* C29: projects with fixed manifests, each ingested once into an empty store by
\* buildProjectGraph followed by linkPackageDependencies, leave the same derived
\* (from, to) pairs in whatever order they were ingested
C29_DerivedPairsOrderFree ==
  Completed("link") =>
    /\ DirectEdges(IngestInOrder(EmptyGraph, graph, Ascending(graph))) = DirectEdges(graph)
    /\ DerivedPairs(graph) = DerivedPairs(IngestInOrder(EmptyGraph, graph, Ascending(graph)))
    /\ DerivedPairs(graph) = DerivedPairs(IngestInOrder(EmptyGraph, graph, Descending(graph)))

\* three projects have been ingested and linked, and pairs were derived from two of them
C29_Witness ==
  /\ Completed("link")
  /\ Cardinality(graph.projects) = 3
  /\ <<"C", "B">> \in DerivedPairs(graph)
  /\ <<"B", "A">> \in DerivedPairs(graph)

\* a findDirectCircularDependencies result has the pair of a and b, in either order
DirectPairOf(direct, a, b) ==
  \E i \in 1..Len(direct) : {direct[i].package1, direct[i].package2} = {a, b}

\* a findCircularDependencies result has a cycle of length 2 that visits a and b
TwoCycleOf(cycles, a, b) == CyclesOver(cycles, {a, b}, 2) # {}

Untruncated(g) == Cardinality(CycleEntries(g)) <= CycleLimit

\* C30: when the cap does not cut the result of findCircularDependencies,
\* findDirectCircularDependencies returns the pair of two packages if and only if
\* findCircularDependencies returns a cycle of length 2 that visits the two
C30_DirectCyclesAgree ==
  Untruncated(graph) =>
    \A direct \in findDirectCircularDependencies(graph) :
      /\ \A i \in 1..Len(direct) : direct[i].package1 # direct[i].package2
      /\ \A cycles \in AllCycles(graph) :
           /\ \A a \in PackageNames : \A b \in PackageNames \ {a} :
                DirectPairOf(direct, a, b) <=> TwoCycleOf(cycles, a, b)
           /\ \A i \in 1..Len(cycles) :
                cycles[i].length = 2 => Cardinality(Range(cycles[i].packages)) = 2

\* the packages A and B depend on each other, A depends on itself as well, a longer
\* cycle exists, the cap cuts nothing, and both queries have a result to return
C30_Witness ==
  /\ Untruncated(graph)
  /\ \E direct \in findDirectCircularDependencies(graph) :
       DirectPairOf(direct, "A", "B") /\ ~DirectPairOf(direct, "B", "C")
  /\ DependsOnRels(graph, "Package", "A", "A") # {}
  /\ \E e \in CycleEntries(graph) : e.length = 3
  /\ AllCycles(graph) # {}
====
